---- MODULE Spec2Model ----
(***************************************************************************)
(* A model of the SSA IR core of mo (src/src/ir.h, src/src/ir_builder.cc). *)
(*                                                                         *)
(* The parts, each with its own specifications:                            *)
(*   SpecUse       - the Value/User use-def graph (operand and use lists)  *)
(*   SpecTypes     - the module's type interning registries                *)
(*   SpecConstInt, SpecConstFP - the module's constant registries          *)
(*   SpecStructs   - named structs, their bodies and pointers to them      *)
(*   SpecLayout    - anonymous structs and the struct layout               *)
(*   SpecFuncTypes - function types                                        *)
(*   SpecCFG       - basic blocks, their instruction lists, CFG edges and  *)
(*                   the IRBuilder cursor                                  *)
(*   SpecOperand   - User::operand on the use-def graph                    *)
(*   SpecCursor    - the IRBuilder cursor and the place of new instructions*)
(*   SpecCast, SpecExt, SpecICmp, SpecGep - the builder's casts, integer   *)
(*                   extensions, comparisons and address computations      *)
(*   SpecBinary, SpecFCmp - the builder's binary instructions and float    *)
(*                   comparisons, and the printed fcmp predicate           *)
(*   SpecQual      - the queries of a QualifiedType                        *)
(*   SpecZero      - the module's zero-constant factory                    *)
(*   SpecLexer     - the lexer (src/src/lexer.h)                           *)
(*   SpecList      - the intrusive instruction list of a block             *)
(*   SpecFunc      - the block lists of a function                         *)
(*                                                                         *)
(* ir.h declares Value::remove_user, User::set_operand, BasicBlock::append *)
(* and the like without bodies; those bodies are modelled from the written *)
(* specification and marked so in MODEL_MAP.json.                          *)
(***************************************************************************)
EXTENDS Integers, Sequences, FiniteSets, TLC

VARIABLES
    \* ---- use-def graph ----
    created,      \* number of User objects constructed so far
    live,         \* the Users constructed and not yet destroyed
    operands,     \* User::operands_  : user -> sequence of values (Null = nullptr)
    users,        \* Value::users_    : value -> sequence of users
    lastUse       \* the last use-graph operation and its arguments

useVars == <<created, live, operands, users, lastUse>>

VARIABLES
    \* ---- Module: type registries ----
    types,           \* the Type objects the module owns; a handle is an index
    void_type_,      \* Module::void_type_      : Null or the handle
    integer_types_,  \* Module::integer_types_  : (bit_width, unsigned) -> handle
    float_types_,    \* Module::float_types_    : bit_width -> handle
    pointer_types_,  \* Module::pointer_types_  : element handle -> handle
    array_types_,    \* Module::array_types_    : (element, n) -> handle
    vector_types_,   \* Module::vector_types_   : (element, n) -> handle
    requests,        \* every (canonical key, returned handle) answered so far
    lastReq          \* the last request: its key, the handle, found or created

typeVars == <<types, void_type_, integer_types_, float_types_, pointer_types_,
              array_types_, vector_types_, requests, lastReq>>

VARIABLES
    \* ---- basic blocks and the builder ----
    insts,           \* block -> its Instruction objects in list order, head_ to tail_
    predecessors_,   \* BasicBlock::predecessors_
    successors_,     \* BasicBlock::successors_
    insert_block_,   \* IRBuilder::insert_block_ (Null before set_insert_point)
    insert_pos_,     \* IRBuilder::insert_pos_: Null, or the position in
                     \* insert_block_'s list of the instruction pointed at
    appendOnly,      \* block -> all its instructions were placed by append
    lastCfg          \* the last block operation and how it ended

cfgVars == <<insts, predecessors_, successors_, insert_block_,
             insert_pos_, appendOnly, lastCfg>>

VARIABLES
    \* ---- Module: constant registries ----
    constants,       \* the ConstantInt / ConstantFP objects the module owns
    constant_ints_,  \* Module::constant_ints_ : (type, value) -> handle
    constant_fps_,   \* Module::constant_fps_  : entries ((type, value), handle)
    constRequests,   \* every (request, returned handle) answered so far
    lastConst        \* the last request, the handle, found or created

constVars == <<constants, constant_ints_, constant_fps_, constRequests, lastConst>>

VARIABLES
    \* ---- Module: struct and function types ----
    struct_types_,   \* Module::struct_types_ : the StructType objects, in order
    function_types_, \* Module::function_types_ : (return, params) -> handle
    shapeRequests,   \* every (request, returned handle) for a struct or function type
    lastShape        \* the last struct or function type operation

shapeVars == <<struct_types_, function_types_, shapeRequests, lastShape>>

VARIABLES
    \* ---- the builder's typed instructions ----
    bvals,           \* the Value objects: arguments and instructions, a value is
                     \* its index; kind is "arg" or the opcode
    block,           \* the insert block's instruction list, head_ to tail_
    busers,          \* Value::users_ of these values
    lastB            \* the last builder call: arguments, result, outcome

builderVars == <<bvals, block, busers, lastB>>

VARIABLES
    \* ---- a qualified type under inspection ----
    qtype,           \* the QualifiedType object: qualifiers_ and base_
    lastQ            \* the last query on it and its answer

qualVars == <<qtype, lastQ>>

VARIABLES
    \* ---- Module: the zero constants ----
    zeros,           \* the constants get_constant_zero has returned: kind,
                     \* type and value of each, a constant is its index
    lastZero         \* the last get_constant_zero call and its result

zeroVars == <<zeros, lastZero>>

VARIABLES
    \* ---- Lexer ----
    input,           \* Lexer::input, a sequence of characters
    lexer_pos,       \* Lexer::pos, here the index of the next character from 1
    lastTok          \* the token the last nextToken call returned

lexVars == <<input, lexer_pos, lastTok>>

VARIABLES
    \* ---- BasicBlock: the intrusive instruction list ----
    head_,           \* BasicBlock::head_ of each block
    tail_,           \* BasicBlock::tail_ of each block
    prev_,           \* Instruction::prev_ of each instruction
    next_,           \* Instruction::next_ of each instruction
    parent_,         \* Instruction::parent_ of each instruction
    is_term_,        \* whether the instruction's opcode is a terminator
    held,         \* the instructions each block was handed and owns
    lastLink         \* the last list operation and its arguments

listVars == <<head_, tail_, prev_, next_, parent_, is_term_, held, lastLink>>

VARIABLES
    \* ---- Function: the blocks it owns ----
    basic_blocks_,      \* Function::basic_blocks_ of each function (owning)
    basic_block_ptrs_,  \* Function::basic_block_ptrs_ of each function
    bb_parent_,         \* BasicBlock::parent_ of each block (Null: no such block)
    lastFn              \* the last call on a function and what it returned

funcVars == <<basic_blocks_, basic_block_ptrs_, bb_parent_, lastFn>>

\* the objects inspected on their own
probeVars == <<qualVars, zeroVars, lexVars, listVars, funcVars>>

vars == <<useVars, typeVars, cfgVars, constVars, shapeVars, builderVars,
          probeVars>>

Null == 0

\* no struct or function type operation was the last operation
NoShapeOp == [op |-> "none", handle |-> Null, hit |-> FALSE, error |-> "none",
              members |-> <<>>]

\* each part's operations leave the other parts alone
OnlyUse ==
    UNCHANGED <<typeVars, cfgVars, constVars, shapeVars, builderVars, probeVars>>
OnlyTypes ==
    /\ UNCHANGED <<useVars, cfgVars, constVars, builderVars, probeVars>>
    /\ UNCHANGED <<struct_types_, function_types_, shapeRequests>>
    /\ lastShape' = NoShapeOp
OnlyCfg ==
    UNCHANGED <<useVars, typeVars, constVars, shapeVars, builderVars, probeVars>>
OnlyConsts ==
    UNCHANGED <<useVars, typeVars, cfgVars, shapeVars, builderVars, probeVars>>
OnlyShapes == UNCHANGED <<useVars, cfgVars, constVars, builderVars, probeVars>>
OnlyBuilder ==
    UNCHANGED <<useVars, typeVars, cfgVars, constVars, shapeVars, probeVars>>
OnlyQual ==
    /\ UNCHANGED <<useVars, typeVars, cfgVars, constVars, shapeVars, builderVars>>
    /\ UNCHANGED <<zeroVars, lexVars, listVars, funcVars>>
OnlyZero ==
    /\ UNCHANGED <<useVars, typeVars, cfgVars, constVars, shapeVars, builderVars>>
    /\ UNCHANGED <<qualVars, lexVars, listVars, funcVars>>
OnlyLexer ==
    /\ UNCHANGED <<useVars, typeVars, cfgVars, constVars, shapeVars, builderVars>>
    /\ UNCHANGED <<qualVars, zeroVars, listVars, funcVars>>
OnlyList ==
    /\ UNCHANGED <<useVars, typeVars, cfgVars, constVars, shapeVars, builderVars>>
    /\ UNCHANGED <<qualVars, zeroVars, lexVars, funcVars>>
OnlyFunc ==
    /\ UNCHANGED <<useVars, typeVars, cfgVars, constVars, shapeVars, builderVars>>
    /\ UNCHANGED <<qualVars, zeroVars, lexVars, listVars>>


Range(s) == {s[k] : k \in DOMAIN s}

\* the number of occurrences of x in the sequence s
Count(s, x) == Cardinality({k \in DOMAIN s : s[k] = x})

(***************************************************************************)
(*                          Part 1: Value / User                           *)
(***************************************************************************)

\* Values that are not Users (a function's Arguments): 1..NumArgs
NumArgs == 1
\* Users (instructions) are NumArgs+1 .. NumArgs+MaxUsers, constructed in order
MaxUsers == 2
\* the number of operand slots all constructed instructions have together
MaxSlots == 2

ArgVals == 1..NumArgs
UserIds == (NumArgs + 1)..(NumArgs + MaxUsers)
AllVals == ArgVals \cup UserIds

\* the values that exist: the arguments and the live users
LiveVals == ArgVals \cup live

\* mutant of add_user: registers a user only once however many slots refer
add_user_dedup(us, u) == IF u \in Range(us) THEN us ELSE Append(us, u)

\* mutant of add_user: the registration is lost
add_user_lost(us, u) == us

\* Value::add_user: users_.push_back(user)
add_user(us, u) == Append(us, u)

\* a remove_user that erases every occurrence of user
remove_user_all(us, u) == SelectSeq(us, LAMBDA x : x # u)

\* Value::remove_user: erases exactly one occurrence (the first) of user
remove_user(us, u) ==
    IF u \notin Range(us) THEN us
    ELSE LET k == CHOOSE j \in DOMAIN us :
                      us[j] = u /\ \A h \in 1..(j - 1) : us[h] # u
         IN  SubSeq(us, 1, k - 1) \o SubSeq(us, k + 1, Len(us))

\* the use-graph as one value, for the operations that are sequences of steps
Graph(ops, us) == [operands |-> ops, users |-> us]

\* User::set_operand(i, v) on a graph g: unregister from the old operand,
\* install v, register with v
set_operand(g, u, i, v) ==
    LET old == g.operands[u][i]
        us1 == IF old # Null
               THEN [g.users EXCEPT ![old] = remove_user(@, u)]
               ELSE g.users
        ops1 == [g.operands EXCEPT ![u][i] = v]
        us2 == IF v # Null
               THEN [us1 EXCEPT ![v] = add_user(@, u)]
               ELSE us1
    IN  Graph(ops1, us2)

\* Instruction::Instruction(opcode, type, parent, operands): stores the operand
\* list and registers the new user once per operand slot, in slot order
RECURSIVE register_operands(_, _, _, _)
register_operands(us, u, ops, k) ==
    IF k > Len(ops) THEN us
    ELSE register_operands(
             IF ops[k] # Null THEN [us EXCEPT ![ops[k]] = add_user(@, u)] ELSE us,
             u, ops, k + 1)

\* replace_all_uses_with, inner loop: every operand slot of u that refers to
\* old is set to new
RECURSIVE rauw_slots(_, _, _, _, _)
rauw_slots(g, u, k, old, new) ==
    IF k > Len(g.operands[u]) THEN g
    ELSE rauw_slots(
             IF g.operands[u][k] = old THEN set_operand(g, u, k, new) ELSE g,
             u, k + 1, old, new)

\* replace_all_uses_with, outer loop over the users old had when the call began
RECURSIVE rauw_users(_, _, _, _, _)
rauw_users(g, snapshot, k, old, new) ==
    IF k > Len(snapshot) THEN g
    ELSE rauw_users(rauw_slots(g, snapshot[k], 1, old, new),
                    snapshot, k + 1, old, new)

replace_all_uses_with(g, old, new) == rauw_users(g, g.users[old], 1, old, new)

\* User::~User: unregister from every operand's use-list, once per slot
RECURSIVE unregister_operands(_, _, _, _)
unregister_operands(us, u, ops, k) ==
    IF k > Len(ops) THEN us
    ELSE unregister_operands(
             IF ops[k] # Null THEN [us EXCEPT ![ops[k]] = remove_user(@, u)] ELSE us,
             u, ops, k + 1)

\* the operand slots constructed so far
RECURSIVE SlotsUpTo(_)
SlotsUpTo(n) == IF n = 0 THEN 0 ELSE Len(operands[NumArgs + n]) + SlotsUpTo(n - 1)

OperandLists == UNION {[1..n -> LiveVals] : n \in 0..(MaxSlots - SlotsUpTo(created))}

NoUseOp == [op |-> "none"]

InitUse ==
    /\ created = 0
    /\ live = {}
    /\ operands = [u \in UserIds |-> <<>>]
    /\ users = [v \in AllVals |-> <<>>]
    /\ lastUse = NoUseOp

\* an instruction is constructed with operands among the existing values
CreateInst ==
    /\ created < MaxUsers
    /\ \E ops \in OperandLists :
         LET u == NumArgs + created + 1 IN
         /\ created' = created + 1
         /\ live' = live \cup {u}
         /\ operands' = [operands EXCEPT ![u] = ops]
         /\ users' = register_operands(users, u, ops, 1)
         /\ lastUse' = [op |-> "create", u |-> u]
    /\ OnlyUse

\* u.set_operand(i, v) with a valid index; v may be nullptr (operand clearing)
SetOperand ==
    \E u \in live : \E i \in DOMAIN operands[u] : \E v \in LiveVals \cup {Null} :
        LET g == set_operand(Graph(operands, users), u, i, v) IN
        /\ operands' = g.operands
        /\ users' = g.users
        /\ lastUse' = [op |-> "set", u |-> u, i |-> i, v |-> v,
                       prev |-> operands[u][i]]
        /\ UNCHANGED <<created, live>>
        /\ OnlyUse

\* old.replace_all_uses_with(new)
ReplaceAllUses ==
    \E old \in LiveVals : \E new \in LiveVals :
        LET g == replace_all_uses_with(Graph(operands, users), old, new) IN
        /\ operands' = g.operands
        /\ users' = g.users
        /\ lastUse' = [op |-> "rauw", old |-> old, new |-> new,
                       moved |-> Len(users[old])]
        /\ UNCHANGED <<created, live>>
        /\ OnlyUse

\* a User is destroyed; every incoming use has been broken first
DestroyUser ==
    \E u \in live :
        /\ users[u] = <<>>
        /\ live' = live \ {u}
        /\ users' = unregister_operands(users, u, operands[u], 1)
        /\ operands' = [operands EXCEPT ![u] = <<>>]
        /\ lastUse' = [op |-> "destroy", u |-> u, ops |-> operands[u]]
        /\ UNCHANGED created
        /\ OnlyUse

\* mutant of operand_at: the bound check lets the index size() through
operand_at_loose(ops, i) ==
    IF i > Len(ops) THEN Null
    ELSE IF i = Len(ops) THEN i
    ELSE ops[i + 1]

\* User::operand(i), i counted from 0: nullptr (after a warning) when i is
\* not below operands_.size(), operands_.at(i) otherwise
operand_at(ops, i) == IF i >= Len(ops) THEN Null ELSE ops[i + 1]

\* the indices operand() is called with: 0 .. MaxSlots
OperandIndices == 0..MaxSlots

\* u.operand(i)
Operand ==
    \E u \in live : \E i \in OperandIndices :
        /\ lastUse' = [op |-> "operand", u |-> u, i |-> i,
                       result |-> operand_at(operands[u], i)]
        /\ UNCHANGED <<created, live, operands, users>>
        /\ OnlyUse

NextOperand ==
    \/ CreateInst
    \/ SetOperand
    \/ Operand

(***************************************************************************)
(*                     Part 2: Module type registries                      *)
(***************************************************************************)

\* the number of Type objects a module allocates in a run
MaxTypes == 3
\* array and vector lengths requested are 1..MaxLen
MaxLen == 2

\* bit widths requested (uint8_t bit_width)
IntWidths == {8, 32}
FloatWidths == {32, 64}
Lens == 1..MaxLen

\* a canonical key: the tag and the payload that identifies the shape
Key(tag, a, b) == [tag |-> tag, a |-> a, b |-> b]

\* mutant of IntKey: signedness does not take part in the key
IntKeyNoSign(bits, uns) == <<bits % 256, FALSE>>

\* key of integer_types_: std::pair<uint8_t, bool>
IntKey(bits, uns) == <<bits % 256, uns>>

\* key of float_types_: uint8_t
FloatKey(bits) == bits % 256

\* key of array_types_ and of vector_types_: std::pair<Type *, uint64_t>
ElemKey(elem, n) == <<elem, n>>

\* mutant of Find: the lookup never finds the key
FindNothing(map, k) == Null

\* std::unordered_map::find / operator[] on a registry
Find(map, k) == IF k \in DOMAIN map THEN map[k] ELSE Null
Insert(map, k, h) == [x \in DOMAIN map \cup {k} |-> IF x = k THEN h ELSE map[x]]

EmptyMap == [x \in {} |-> Null]

Handles == 1..Len(types)

\* no type request was the last operation
NoReq == [key |-> Key("none", 0, 0), handle |-> Null, hit |-> FALSE]

InitTypes ==
    /\ types = <<>>
    /\ void_type_ = Null
    /\ integer_types_ = EmptyMap
    /\ float_types_ = EmptyMap
    /\ pointer_types_ = EmptyMap
    /\ array_types_ = EmptyMap
    /\ vector_types_ = EmptyMap
    /\ requests = {}
    /\ lastReq = NoReq

\* what every accessor does once its registry was consulted: found is the
\* registry's answer; a miss allocates the next Type object
Answer(key, found) ==
    LET h == IF found # Null THEN found ELSE Len(types) + 1 IN
    /\ found = Null => Len(types) < MaxTypes
    /\ types' = IF found # Null THEN types ELSE Append(types, key)
    /\ requests' = requests \cup {[key |-> key, handle |-> h]}
    /\ lastReq' = [key |-> key, handle |-> h, hit |-> found # Null]
    /\ OnlyTypes

\* Module::get_void_type()
get_void_type ==
    /\ Answer(Key("void", 0, 0), void_type_)
    /\ void_type_' = IF void_type_ # Null THEN void_type_ ELSE Len(types) + 1
    /\ UNCHANGED <<integer_types_, float_types_, pointer_types_, array_types_,
                   vector_types_>>

\* Module::get_integer_type(bit_width, unsigned_)
get_integer_type ==
    \E bits \in IntWidths : \E uns \in BOOLEAN :
        LET k == IntKey(bits, uns)
            found == Find(integer_types_, k)
        IN  /\ Answer(Key("int", bits, IF uns THEN 1 ELSE 0), found)
            /\ integer_types_' = IF found # Null THEN integer_types_
                                 ELSE Insert(integer_types_, k, Len(types) + 1)
            /\ UNCHANGED <<void_type_, float_types_, pointer_types_,
                           array_types_, vector_types_>>

\* Module::get_float_type(bit_width)
get_float_type ==
    \E bits \in FloatWidths :
        LET k == FloatKey(bits)
            found == Find(float_types_, k)
        IN  /\ Answer(Key("float", bits, 0), found)
            /\ float_types_' = IF found # Null THEN float_types_
                               ELSE Insert(float_types_, k, Len(types) + 1)
            /\ UNCHANGED <<void_type_, integer_types_, pointer_types_,
                           array_types_, vector_types_>>

\* Module::get_pointer_type(element_type)
get_pointer_type ==
    \E elem \in Handles :
        LET found == Find(pointer_types_, elem) IN
        /\ Answer(Key("ptr", elem, 0), found)
        /\ pointer_types_' = IF found # Null THEN pointer_types_
                             ELSE Insert(pointer_types_, elem, Len(types) + 1)
        /\ UNCHANGED <<void_type_, integer_types_, float_types_,
                       array_types_, vector_types_>>

\* Module::get_array_type(element_type, num_elements)
get_array_type ==
    \E elem \in Handles : \E n \in Lens :
        LET k == ElemKey(elem, n)
            found == Find(array_types_, k)
        IN  /\ Answer(Key("array", elem, n), found)
            /\ array_types_' = IF found # Null THEN array_types_
                               ELSE Insert(array_types_, k, Len(types) + 1)
            /\ UNCHANGED <<void_type_, integer_types_, float_types_,
                           pointer_types_, vector_types_>>

\* Module::get_vector_type(element_type, num_elements)
get_vector_type ==
    \E elem \in Handles : \E n \in Lens :
        LET k == ElemKey(elem, n)
            found == Find(vector_types_, k)
        IN  /\ Answer(Key("vec", elem, n), found)
            /\ vector_types_' = IF found # Null THEN vector_types_
                                ELSE Insert(vector_types_, k, Len(types) + 1)
            /\ UNCHANGED <<void_type_, integer_types_, float_types_,
                           pointer_types_, array_types_>>

NextTypes ==
    \/ get_void_type
    \/ get_integer_type
    \/ get_float_type
    \/ get_pointer_type
    \/ get_array_type
    \/ get_vector_type


(***************************************************************************)
(*                   Part 2b: Module constant registries                   *)
(***************************************************************************)

\* the number of constant objects a module allocates in a run
MaxConsts == 2

\* the uint64_t values requested
IntValues == {0, 256}

\* a double by its bit fields: sign (1 bit), exponent (11), fraction (52)
Double(s, e, f) == [sign |-> s, exp |-> e, frac |-> f]

\* +0.0, -0.0, 1.0 and two NaNs with different fraction bits
Doubles == {Double(0, 0, 0), Double(1, 0, 0), Double(0, 1023, 0),
            Double(0, 2047, 1), Double(0, 2047, 2)}

IsNaN(d) == d.exp = 2047 /\ d.frac # 0
IsZero(d) == d.exp = 0 /\ d.frac = 0

\* operator== on double: NaN equals nothing, +0.0 equals -0.0
double_eq(a, b) ==
    IF IsNaN(a) \/ IsNaN(b) THEN FALSE
    ELSE IF IsZero(a) /\ IsZero(b) THEN TRUE
    ELSE a = b

\* std::memcpy(&bits, &d, sizeof(double)): the 64-bit pattern of d
bits_of(d) == <<d.sign, d.exp, d.frac>>

\* mutant of ConstIntKey: the value is cut to the type's bit width first
ConstIntKeyTruncated(ty, value) ==
    <<ty, IF types[ty].a < 16 THEN value % (2 ^ types[ty].a) ELSE value>>

\* key of constant_ints_: std::pair<Type *, uint64_t>
ConstIntKey(ty, value) == <<ty, value>>

\* mutant of DoublePairEqual: the doubles are compared with operator==
DoublePairEqualByValue(lhs, rhs) == lhs[1] = rhs[1] /\ double_eq(lhs[2], rhs[2])

\* Module::DoublePairEqual: same type pointer and memcmp of the doubles == 0
DoublePairEqual(lhs, rhs) == lhs[1] = rhs[1] /\ bits_of(lhs[2]) = bits_of(rhs[2])

\* constant_fps_.find(key): an entry whose key DoublePairEqual calls equal
FindFP(entries, k) ==
    IF \E e \in entries : DoublePairEqual(e.key, k)
    THEN (CHOOSE e \in entries : DoublePairEqual(e.key, k)).handle
    ELSE Null

ConstHandles == 1..Len(constants)

NoConstOp == [req |-> [kind |-> "none", type |-> Null, bits |-> Null],
              handle |-> Null, hit |-> FALSE]

InitConsts ==
    /\ constants = <<>>
    /\ constant_ints_ = EmptyMap
    /\ constant_fps_ = {}
    /\ constRequests = {}
    /\ lastConst = NoConstOp

\* what both constant accessors do once the registry was consulted: a miss
\* allocates the next constant object
ConstAnswer(req, found) ==
    LET h == IF found # Null THEN found ELSE Len(constants) + 1 IN
    /\ found = Null => Len(constants) < MaxConsts
    /\ constants' = IF found # Null THEN constants ELSE Append(constants, req)
    /\ constRequests' = constRequests \cup {[req |-> req, handle |-> h]}
    /\ lastConst' = [req |-> req, handle |-> h, hit |-> found # Null]
    /\ OnlyConsts

\* Module::get_constant_int(IntegerType *type, uint64_t value)
get_constant_int ==
    \E ty \in Handles : \E value \in IntValues :
        LET k == ConstIntKey(ty, value)
            found == Find(constant_ints_, k)
        IN  /\ types[ty].tag = "int"
            /\ ConstAnswer([kind |-> "int", type |-> ty, bits |-> value], found)
            /\ constant_ints_' = IF found # Null THEN constant_ints_
                                 ELSE Insert(constant_ints_, k, Len(constants) + 1)
            /\ UNCHANGED constant_fps_

\* Module::get_constant_fp(FloatType *type, double value)
get_constant_fp ==
    \E ty \in Handles : \E value \in Doubles :
        LET k == <<ty, value>>
            found == FindFP(constant_fps_, k)
        IN  /\ types[ty].tag = "float"
            /\ ConstAnswer([kind |-> "fp", type |-> ty, bits |-> bits_of(value)], found)
            /\ constant_fps_' = IF found # Null THEN constant_fps_
                                ELSE constant_fps_ \cup
                                       {[key |-> k, handle |-> Len(constants) + 1]}
            /\ UNCHANGED constant_ints_

NextConstInt ==
    \/ get_integer_type
    \/ get_constant_int

NextConstFP ==
    \/ get_float_type
    \/ get_constant_fp

(***************************************************************************)
(*                 Part 2c: struct types and function types                *)
(***************************************************************************)

\* the number of members a struct body has at most
MaxMembers == 2

\* the names structs are created under
StructNames == {"A", "B"}

\* the name_ of an anonymous struct
NoName == ""

\* member names come as one of two namings of the positions
Namings == {"x", "y"}

\* a MemberInfo: name and type
MemberInfo(name, type) == [name |-> name, type |-> type]

\* the member list with the given types, named by the naming nm
Members(nm, tys) == [i \in DOMAIN tys |-> MemberInfo(<<nm, i>>, tys[i])]

\* the member-type sequence of a member list
member_types(members) == [i \in DOMAIN members |-> members[i].type]

\* the handles of the struct types
StructHandles == {h \in Handles : types[h].tag = "struct"}

\* the StructType object behind a struct handle
StructOf(h) == struct_types_[types[h].a]

\* Type::size() by kind of type
RECURSIVE size_of(_)
size_of(h) ==
    LET t == types[h] IN
    CASE t.tag = "void" -> 0
      [] t.tag \in {"int", "float"} -> ((t.a % 256) + 7) \div 8
      [] t.tag = "ptr" -> 8
      [] t.tag = "array" -> t.b * size_of(t.a)
      [] t.tag = "vec" -> t.b * size_of(t.a)
      [] t.tag = "struct" -> StructOf(h).size_
      [] OTHER -> 0

\* Type::bit_width() by kind of type, a uint8_t
RECURSIVE bit_width(_)
bit_width(h) ==
    LET t == types[h] IN
    CASE t.tag \in {"int", "float"} -> t.a % 256
      [] t.tag = "ptr" -> 64
      [] t.tag = "array" -> (size_of(h) * 8) % 256
      [] t.tag = "vec" -> (bit_width(t.a) * t.b) % 256
      [] t.tag = "struct" -> (size_of(h) * 8) % 256
      [] OTHER -> 0

\* Type::alignment(): (bit_width() + 7) / 8, and 8 for every StructType
alignment(h) == IF types[h].tag = "struct" THEN 8 ELSE (bit_width(h) + 7) \div 8

\* mutant of round_up: rounds down
round_down(x, a) == IF a = 0 THEN x ELSE (x \div a) * a

\* the next multiple of a from x on
round_up(x, a) == IF a = 0 THEN x ELSE ((x + a - 1) \div a) * a

\* calculate_aligned_layout, the offsets: member i goes to the next multiple
\* of its alignment from the end of member i - 1 on
RECURSIVE layout_offsets(_, _, _, _)
layout_offsets(tys, i, current, acc) ==
    IF i > Len(tys) THEN acc
    ELSE LET off == round_up(current, alignment(tys[i])) IN
         layout_offsets(tys, i + 1, off + size_of(tys[i]), Append(acc, off))

\* calculate_aligned_layout: offsets, and the size rounded up to the struct
\* alignment 8
calculate_aligned_layout(tys) ==
    LET offs == layout_offsets(tys, 1, 0, <<>>)
        n == Len(tys)
        current == IF n = 0 THEN 0 ELSE offs[n] + size_of(tys[n])
    IN  [offsets |-> offs, size |-> round_up(current, 8)]

\* mutant of members_equal: the member types alone, as StructType::is_equal
\* compares them
members_equal_by_type(ms1, ms2) == member_types(ms1) = member_types(ms2)

\* std::vector<MemberInfo> equality by MemberInfo::operator==: as many
\* members, each with the same name and the same type
members_equal(ms1, ms2) ==
    /\ Len(ms1) = Len(ms2)
    /\ \A i \in DOMAIN ms1 : ms1[i].name = ms2[i].name /\ ms1[i].type = ms2[i].type

\* a StructType without a body: opaque, no members, size 0
OpaqueStruct(name) ==
    [name_ |-> name, is_opaque_ |-> TRUE, members_ |-> <<>>,
     offsets_ |-> <<>>, size_ |-> 0]

\* a StructType with a body: the layout is computed when the body is set
CompleteStruct(name, members) ==
    LET lay == calculate_aligned_layout(member_types(members)) IN
    [name_ |-> name, is_opaque_ |-> FALSE, members_ |-> members,
     offsets_ |-> lay.offsets, size_ |-> lay.size]

\* the struct handle with the given name (Null: none)
FindNamed(name) ==
    IF \E h \in StructHandles : StructOf(h).name_ = name
    THEN CHOOSE h \in StructHandles : StructOf(h).name_ = name
    ELSE Null

\* mutant of AnonKeyEqual: MemberInfo::operator==, names and types
AnonKeyEqualWithNames(ms1, ms2) == ms1 = ms2

\* the key of an anonymous struct is its member-type sequence
AnonKeyEqual(ms1, ms2) == member_types(ms1) = member_types(ms2)

\* the anonymous struct handle with the given member types (Null: none)
FindAnonymous(members) ==
    LET hit(h) == /\ StructOf(h).name_ = NoName
                  /\ AnonKeyEqual(StructOf(h).members_, members)
    IN  IF \E h \in StructHandles : hit(h)
        THEN CHOOSE h \in StructHandles : hit(h)
        ELSE Null

\* the FunctionType object behind a function type handle
FuncOf(h) ==
    LET k == CHOOSE k \in DOMAIN function_types_ : function_types_[k].handle = h
    IN  function_types_[k]

\* Type::operator== with the is_equal overrides: the same object, or the
\* same kind of type and structurally equal; StructType::is_equal compares
\* is_opaque_, the member count and the member types, no name. Two distinct
\* structs that reach each other's like through pointers make the comparison
\* recurse without end; out of fuel it has not answered true
RECURSIVE type_eq_in(_, _, _)
type_eq_in(a, b, fuel) ==
    LET ta == types[a]
        tb == types[b]
    IN  IF a = b THEN TRUE
        ELSE IF ta.tag # tb.tag THEN FALSE
        ELSE IF fuel = 0 THEN FALSE
        ELSE CASE ta.tag \in {"int", "float"} -> ta.a = tb.a /\ ta.b = tb.b
               [] ta.tag = "void" -> TRUE
               [] ta.tag = "ptr" -> type_eq_in(ta.a, tb.a, fuel - 1)
               [] ta.tag \in {"array", "vec"} ->
                      ta.b = tb.b /\ type_eq_in(ta.a, tb.a, fuel - 1)
               [] ta.tag = "struct" ->
                      LET sa == StructOf(a)
                          sb == StructOf(b)
                      IN  /\ sa.is_opaque_ = sb.is_opaque_
                          /\ Len(sa.members_) = Len(sb.members_)
                          /\ \A i \in DOMAIN sa.members_ :
                                 type_eq_in(sa.members_[i].type,
                                            sb.members_[i].type, fuel - 1)
               [] ta.tag = "func" ->
                      LET fa == FuncOf(a)
                          fb == FuncOf(b)
                      IN  /\ type_eq_in(fa.return_type_, fb.return_type_, fuel - 1)
                          /\ Len(fa.params_) = Len(fb.params_)
                          /\ \A i \in DOMAIN fa.params_ :
                                 type_eq_in(fa.params_[i][2], fb.params_[i][2],
                                            fuel - 1)
               [] OTHER -> FALSE

\* *a == *b
type_eq(a, b) == type_eq_in(a, b, Len(types) * Len(types))

InitShapes ==
    /\ struct_types_ = <<>>
    /\ function_types_ = EmptyMap
    /\ shapeRequests = {}
    /\ lastShape = NoShapeOp

\* the types members are requested with: the scalar and pointer types
MemberTypes == {h \in Handles : types[h].tag \in {"int", "float", "ptr"}}

\* the member lists a body is requested with
Bodies ==
    {Members(nm, tys) :
        nm \in Namings,
        tys \in UNION {[1..n -> MemberTypes] : n \in 1..MaxMembers}}

\* the member lists set_body is called with: any body on an opaque struct; on
\* a struct with a body the same member types under either naming (the
\* identical list among them) and the one-member lists
BodiesFor(st) ==
    IF st.is_opaque_ THEN Bodies
    ELSE {Members(nm, member_types(st.members_)) : nm \in Namings}
         \cup {Members(nm, <<t>>) : nm \in Namings, t \in MemberTypes}

\* a new Type object for a new StructType object
NewStructType(st) ==
    /\ Len(types) < MaxTypes
    /\ types' = Append(types, Key("struct", Len(struct_types_) + 1, 0))
    /\ struct_types_' = Append(struct_types_, st)

\* create_struct(name): Module::get_struct_type(name, {}) - the struct of that
\* name, created opaque if there is none
create_struct ==
    \E name \in StructNames :
        LET found == FindNamed(name)
            h == IF found # Null THEN found ELSE Len(types) + 1
        IN  /\ IF found # Null
               THEN UNCHANGED <<types, struct_types_>>
               ELSE NewStructType(OpaqueStruct(name))
            /\ shapeRequests' = shapeRequests \cup
                   {[kind |-> "named", name |-> name, tys |-> <<>>, handle |-> h]}
            /\ lastShape' = [op |-> "create_struct", handle |-> h,
                             hit |-> found # Null, error |-> "none",
                             members |-> <<>>]
            /\ UNCHANGED <<void_type_, integer_types_, float_types_, pointer_types_,
                           array_types_, vector_types_, requests,
                           function_types_>>
            /\ lastReq' = NoReq
            /\ OnlyShapes

\* StructType::set_body(members): completes an opaque struct; on a struct
\* with a body, identical members are a no-op and other members are a
\* TypeRedefinition that changes nothing
set_body ==
    \E h \in StructHandles : \E members \in BodiesFor(StructOf(h)) :
        LET st == StructOf(h)
            err == IF st.is_opaque_ \/ members_equal(st.members_, members)
                   THEN "none" ELSE "TypeRedefinition"
        IN  /\ struct_types_' =
                   IF st.is_opaque_
                   THEN [struct_types_ EXCEPT ![types[h].a] =
                            CompleteStruct(st.name_, members)]
                   ELSE struct_types_
            /\ lastShape' = [op |-> "set_body", handle |-> h,
                             hit |-> ~st.is_opaque_, error |-> err,
                             members |-> IF st.is_opaque_ THEN <<>> ELSE members]
            /\ UNCHANGED <<types, void_type_, integer_types_, float_types_,
                           pointer_types_, array_types_, vector_types_, requests,
                           function_types_, shapeRequests>>
            /\ lastReq' = NoReq
            /\ OnlyShapes

\* Module::get_struct_type_anonymous(members)
get_struct_type_anonymous ==
    \E members \in Bodies :
        LET found == FindAnonymous(members)
            h == IF found # Null THEN found ELSE Len(types) + 1
        IN  /\ IF found # Null
               THEN UNCHANGED <<types, struct_types_>>
               ELSE NewStructType(CompleteStruct(NoName, members))
            /\ shapeRequests' = shapeRequests \cup
                   {[kind |-> "anon", name |-> NoName,
                     tys |-> member_types(members), handle |-> h]}
            /\ lastShape' = [op |-> "get_struct_type_anonymous", handle |-> h,
                             hit |-> found # Null, error |-> "none",
                             members |-> members]
            /\ UNCHANGED <<void_type_, integer_types_, float_types_, pointer_types_,
                           array_types_, vector_types_, requests,
                           function_types_>>
            /\ lastReq' = NoReq
            /\ OnlyShapes

MaxParams == 2
MaxFuncs == 2

\* param_list_to_types: the types of a ParamList, a vector of (name, type)
param_list_to_types(params) == [i \in DOMAIN params |-> params[i][2]]

\* mutant of FunctionTypeKey: the parameter names take part in the key
FunctionTypeKeyWithNames(return_type, params) == <<return_type, params>>

\* FunctionTypeKey: std::pair<Type *, std::vector<Type *>>
FunctionTypeKey(return_type, params) ==
    <<return_type, param_list_to_types(params)>>

\* the types a function type is requested with
ReturnTypes == {h \in Handles : types[h].tag \in {"void", "float"}}
ParamTypes == {h \in Handles : types[h].tag = "float"}

\* the parameter lists a function type is requested with
ParamLists ==
    {[i \in DOMAIN tys |-> <<<<nm, i>>, tys[i]>>] :
        nm \in Namings,
        tys \in UNION {[1..n -> ParamTypes] : n \in 0..MaxParams}}

\* Module::get_function_type(return_type, param_types), param_types being
\* the types of the caller's ParamList; the FunctionType object is built
\* from the types alone
get_function_type ==
    \E return_type \in ReturnTypes, params \in ParamLists :
        LET k == FunctionTypeKey(return_type, params)
            param_types == param_list_to_types(params)
            hitting == k \in DOMAIN function_types_
            h == IF hitting THEN function_types_[k].handle ELSE Len(types) + 1
            obj == [handle |-> h, return_type_ |-> return_type,
                    params_ |-> [i \in DOMAIN param_types |->
                                    <<<<"__arg", i>>, param_types[i]>>]]
        IN  /\ ~hitting => Cardinality(DOMAIN function_types_) < MaxFuncs
            /\ types' = IF hitting THEN types
                         ELSE Append(types, Key("func", return_type, Len(param_types)))
            /\ function_types_' = IF hitting THEN function_types_
                                   ELSE Insert(function_types_, k, obj)
            /\ shapeRequests' = shapeRequests \cup
                   {[kind |-> "func", name |-> NoName,
                     tys |-> <<return_type>> \o param_types, handle |-> h]}
            /\ lastShape' = [op |-> "get_function_type", handle |-> h,
                             hit |-> hitting, error |-> "none", members |-> <<>>]
            /\ UNCHANGED <<void_type_, integer_types_, float_types_, pointer_types_,
                           array_types_, vector_types_, requests, struct_types_>>
            /\ lastReq' = NoReq
            /\ OnlyShapes

NextStructs ==
    \/ get_pointer_type
    \/ create_struct
    \/ set_body

NextLayout ==
    \/ get_float_type
    \/ get_struct_type_anonymous

NextFuncTypes ==
    \/ get_float_type
    \/ get_function_type

(***************************************************************************)
(*                Part 3: basic blocks and the IR builder                  *)
(***************************************************************************)

\* the function under construction has an entry block and one more block
Blocks == {1, 2}
NumBlocks == Cardinality(Blocks)
\* the number of Instruction objects constructed in a run
MaxInsts == 2
\* the number of add_incoming calls in a run
MaxIncoming == 2

\* the non-block values instructions refer to: an i32 value, an f64 value and
\* an i1 condition
ValI32 == NumBlocks + 1
ValF64 == NumBlocks + 2
ValI1 == NumBlocks + 3

value_type(v) == IF v = ValI32 THEN "i32" ELSE IF v = ValF64 THEN "f64" ELSE "i1"

\* the terminator opcodes
IsTerminator(opc) == opc \in {"Br", "CondBr", "Ret", "Unreachable"}

\* an Instruction object: opcode_, type_ and operands_; its parent_ is the
\* block whose list holds it, its prev_/next_ its neighbours in that list.
\* log is the sequence of add_incoming calls made on it.
Inst(opc, ty, ops) == [opcode |-> opc, type |-> ty, ops |-> ops, log |-> <<>>]

\* BranchInst::is_conditional: operands_.size() == 3
is_conditional(inst) == Len(inst.ops) = 3

\* the blocks a terminator targets, one entry per edge
targets(inst) ==
    IF inst.opcode \notin {"Br", "CondBr"} THEN <<>>
    ELSE IF is_conditional(inst) THEN <<inst.ops[2], inst.ops[3]>>
    ELSE <<inst.ops[1]>>

\* mutant of num_incoming: the operand count is not halved
num_incoming_unhalved(inst) == Len(inst.ops)

\* PhiInst::num_incoming: operands_.size() / 2
num_incoming(inst) == Len(inst.ops) \div 2

\* PhiInst::get_incoming_value(i): operands_[2 * i]   (i from 0)
get_incoming_value(inst, i) == inst.ops[2 * i + 1]

\* PhiInst::get_incoming_block(i): the operand after the value
get_incoming_block(inst, i) == inst.ops[2 * i + 2]

\* BasicBlock::get_terminator: the position of the last instruction if it is
\* a terminator (Null: none)
get_terminator(list) ==
    IF list # <<>> /\ IsTerminator(list[Len(list)].opcode)
    THEN Len(list) ELSE Null

\* the CFG edges as one value
Cfg(preds, succs) == [preds |-> preds, succs |-> succs]

\* BasicBlock::add_successor(bb) on block b: b's successors gain bb and bb's
\* predecessors gain b
add_successor(g, b, bb) ==
    Cfg([g.preds EXCEPT ![bb] = Append(@, b)],
        [g.succs EXCEPT ![b] = Append(@, bb)])

\* BranchInst::create / create_cond: one add_successor per target, in order
RECURSIVE register_edges(_, _, _, _)
register_edges(g, b, tgts, k) ==
    IF k > Len(tgts) THEN g
    ELSE register_edges(add_successor(g, b, tgts[k]), b, tgts, k + 1)

\* BasicBlock::append(inst): fails on a sealed block, else links inst at the tail
append(list, inst) ==
    IF get_terminator(list) # Null
    THEN [ok |-> FALSE, list |-> list]
    ELSE [ok |-> TRUE, list |-> Append(list, inst)]

\* BasicBlock::insert_before(pos, inst): links inst in front of pos
insert_before(list, pos, inst) ==
    [ok |-> TRUE,
     list |-> SubSeq(list, 1, pos - 1) \o <<inst>> \o SubSeq(list, pos, Len(list))]

\* BasicBlock::insert_after(pos, inst): links inst behind pos
insert_after(list, pos, inst) ==
    [ok |-> TRUE,
     list |-> SubSeq(list, 1, pos) \o <<inst>> \o SubSeq(list, pos + 1, Len(list))]

\* mutant of insert: with no insert_pos_ the instruction is linked at the tail
\* whatever the block holds
insert_unchecked(inst) ==
    IF insert_pos_ # Null
    THEN insert_before(insts[insert_block_], insert_pos_, inst)
    ELSE [ok |-> TRUE, list |-> Append(insts[insert_block_], inst)]

\* mutant of insert: insert_pos_ is not consulted
insert_at_end(inst) == append(insts[insert_block_], inst)

\* IRBuilder::insert(inst): before insert_pos_ if set, else append
insert(inst) ==
    IF insert_pos_ # Null
    THEN insert_before(insts[insert_block_], insert_pos_, inst)
    ELSE append(insts[insert_block_], inst)

\* the Instruction objects constructed so far
RECURSIVE NumInsts(_)
NumInsts(b) == IF b = 0 THEN 0 ELSE Len(insts[b]) + NumInsts(b - 1)

\* the add_incoming calls made so far
RECURSIVE CallsIn(_, _)
CallsIn(list, k) == IF k = 0 THEN 0 ELSE Len(list[k].log) + CallsIn(list, k - 1)

RECURSIVE IncomingCalls(_)
IncomingCalls(b) ==
    IF b = 0 THEN 0 ELSE CallsIn(insts[b], Len(insts[b])) + IncomingCalls(b - 1)

NoCfgOp == [via |-> "none", b |-> Null, ok |-> TRUE]

InitCfg ==
    /\ insts = [b \in Blocks |-> <<>>]
    /\ predecessors_ = [b \in Blocks |-> <<>>]
    /\ successors_ = [b \in Blocks |-> <<>>]
    /\ insert_block_ = Null
    /\ insert_pos_ = Null
    /\ appendOnly = [b \in Blocks |-> TRUE]
    /\ lastCfg = NoCfgOp

\* IRBuilder::set_insert_point(BasicBlock *bb)
set_insert_point_block ==
    \E bb \in Blocks :
        /\ insert_block_' = bb
        /\ insert_pos_' = Null
        /\ lastCfg' = NoCfgOp
        /\ UNCHANGED <<insts, predecessors_, successors_, appendOnly>>
        /\ OnlyCfg

\* IRBuilder::set_insert_point(Instruction *inst): inst is the instruction at
\* position k of block b, so inst->parent() is b
set_insert_point_inst ==
    \E b \in Blocks : \E k \in DOMAIN insts[b] :
        /\ insert_block_' = b
        /\ insert_pos_' = k
        /\ lastCfg' = NoCfgOp
        /\ UNCHANGED <<insts, predecessors_, successors_, appendOnly>>
        /\ OnlyCfg

\* an instruction is constructed for block b and handed to a placement:
\* placed is the placement's answer, via names the placement and at is the
\* position the instruction takes. A branch registers its edges when it is
\* constructed. A placement that fails is a contract violation: the block and
\* the CFG stay as they were. The builder's insert_pos_ keeps pointing at the
\* same instruction.
Place(via, b, inst, placed, at) ==
    LET g == register_edges(Cfg(predecessors_, successors_), b, targets(inst), 1)
    IN  /\ placed.ok => NumInsts(NumBlocks) < MaxInsts
        /\ insts' = [insts EXCEPT ![b] = placed.list]
        /\ predecessors_' = IF placed.ok THEN g.preds ELSE predecessors_
        /\ successors_' = IF placed.ok THEN g.succs ELSE successors_
        /\ insert_pos_' = IF /\ placed.ok
                             /\ insert_pos_ # Null
                             /\ insert_block_ = b
                             /\ at <= insert_pos_
                          THEN insert_pos_ + 1 ELSE insert_pos_
        /\ appendOnly' = [appendOnly EXCEPT ![b] = @ /\ (via = "append" \/ ~placed.ok)]
        /\ lastCfg' = IF via = "append"
                      THEN [via |-> via, b |-> b, ok |-> placed.ok]
                      ELSE NoCfgOp
        /\ UNCHANGED insert_block_

\* how the builder's insert places: through append or through insert_before
BuilderVia == IF insert_pos_ # Null THEN "insert_before" ELSE "append"

\* where the builder's insert puts the instruction
BuilderAt == IF insert_pos_ # Null THEN insert_pos_ ELSE Len(insts[insert_block_]) + 1

\* IRBuilder::create_binary(Add, lhs, rhs): the instruction is created for
\* insert_block_ and inserted
create_binary ==
    LET inst == Inst("Add", "i32", <<ValI32, ValI32>>) IN
    /\ insert_block_ # Null
    /\ Place(BuilderVia, insert_block_, inst, insert(inst), BuilderAt)
    /\ OnlyCfg

\* mutant of create_br: the branch is created and never inserted
create_br_not_inserted ==
    \E target \in Blocks :
        LET g == add_successor(Cfg(predecessors_, successors_),
                               insert_block_, target) IN
        /\ insert_block_ # Null
        /\ predecessors_' = g.preds
        /\ successors_' = g.succs
        /\ lastCfg' = NoCfgOp
        /\ UNCHANGED <<insts, insert_block_, insert_pos_, appendOnly>>
        /\ OnlyCfg

\* IRBuilder::create_br(target)
create_br ==
    \E target \in Blocks :
        LET inst == Inst("Br", "void", <<target>>) IN
        /\ insert_block_ # Null
        /\ Place(BuilderVia, insert_block_, inst, insert(inst), BuilderAt)
        /\ OnlyCfg

\* mutant of is_i1: any value passes as a condition
is_i1_unchecked(cond) == TRUE

\* cond->type() == module_->get_integer_type(1)
is_i1(cond) == value_type(cond) = "i1"

\* IRBuilder::create_cond_br(cond, true_bb, false_bb): a condition that is
\* not an i1 fails the assert and nothing is built
create_cond_br ==
    \E cond \in {ValI32, ValF64, ValI1} :
    \E true_bb \in Blocks : \E false_bb \in Blocks :
        LET inst == Inst("CondBr", "void", <<cond, true_bb, false_bb>>) IN
        /\ insert_block_ # Null
        /\ IF is_i1(cond)
           THEN Place(BuilderVia, insert_block_, inst, insert(inst), BuilderAt)
           ELSE UNCHANGED cfgVars
        /\ OnlyCfg

\* IRBuilder::create_ret(value): the function returns i32
create_ret ==
    LET inst == Inst("Ret", "void", <<ValI32>>) IN
    /\ insert_block_ # Null
    /\ Place(BuilderVia, insert_block_, inst, insert(inst), BuilderAt)
    /\ OnlyCfg

\* IRBuilder::create_phi(type): a phi without incoming pairs
create_phi ==
    LET inst == Inst("Phi", "i32", <<>>) IN
    /\ insert_block_ # Null
    /\ Place(BuilderVia, insert_block_, inst, insert(inst), BuilderAt)
    /\ OnlyCfg

\* ReturnInst::create(value) followed by bb->append(inst)
append_ret ==
    \E b \in Blocks :
        LET inst == Inst("Ret", "void", <<ValI32>>) IN
        /\ Place("append", b, inst, append(insts[b], inst), Len(insts[b]) + 1)
        /\ OnlyCfg

\* bb->insert_after(pos, inst) with a new Add
insert_after_inst ==
    \E b \in Blocks : \E pos \in DOMAIN insts[b] :
        LET inst == Inst("Add", "i32", <<ValI32, ValI32>>) IN
        /\ Place("insert_after", b, inst, insert_after(insts[b], pos, inst), pos + 1)
        /\ OnlyCfg

\* phi->add_incoming(val, bb): a value of another type than the phi's is a
\* TypeMismatch and changes nothing; else the value and the block become two
\* more operands
add_incoming ==
    \E b \in Blocks : \E k \in DOMAIN insts[b] :
    \E val \in {ValI32, ValF64} : \E bb \in Blocks :
        /\ insts[b][k].opcode = "Phi"
        /\ IncomingCalls(NumBlocks) < MaxIncoming
        /\ insts' = IF value_type(val) # insts[b][k].type THEN insts
                    ELSE [insts EXCEPT ![b][k].ops = @ \o <<val, bb>>,
                                       ![b][k].log = Append(@, <<val, bb>>)]
        /\ lastCfg' = NoCfgOp
        /\ UNCHANGED <<predecessors_, successors_, insert_block_,
                       insert_pos_, appendOnly>>
        /\ OnlyCfg

NextCfg ==
    \/ set_insert_point_block
    \/ set_insert_point_inst
    \/ create_binary
    \/ create_br
    \/ create_cond_br
    \/ create_ret
    \/ create_phi
    \/ append_ret
    \/ insert_after_inst
    \/ add_incoming

(***************************************************************************)
(*               Part 4: the builder's typed instructions                  *)
(***************************************************************************)

MaxBVals == 2

\* a Type object; every field is present for every kind of type
Ty(tag, bits, uns, elem, n, members) ==
    [tag |-> tag, bits |-> bits, uns |-> uns, elem |-> elem, n |-> n,
     members |-> members]

\* the interned types the builder is used with; a handle is the index:
\* i1, i8, i32, u32, i64, f32, f64, i8*, {i32, i64}, {i32, i64}*, i32*,
\* i64*, [2 x i64], [2 x i64]*, <2 x f32>
TypeTable ==
    << Ty("int", 1, FALSE, 0, 0, <<>>),
       Ty("int", 8, FALSE, 0, 0, <<>>),
       Ty("int", 32, FALSE, 0, 0, <<>>),
       Ty("int", 32, TRUE, 0, 0, <<>>),
       Ty("int", 64, FALSE, 0, 0, <<>>),
       Ty("float", 32, FALSE, 0, 0, <<>>),
       Ty("float", 64, FALSE, 0, 0, <<>>),
       Ty("ptr", 0, FALSE, 2, 0, <<>>),
       Ty("struct", 0, FALSE, 0, 0, <<3, 5>>),
       Ty("ptr", 0, FALSE, 9, 0, <<>>),
       Ty("ptr", 0, FALSE, 3, 0, <<>>),
       Ty("ptr", 0, FALSE, 5, 0, <<>>),
       Ty("array", 0, FALSE, 5, 2, <<>>),
       Ty("ptr", 0, FALSE, 13, 0, <<>>),
       Ty("vec", 0, FALSE, 6, 2, <<>>) >>

TypeIds == DOMAIN TypeTable

\* the scalar and pointer types values are cast between
ScalarTypes == {t \in TypeIds : t <= 8}

\* Type::type_id and the is_* predicates
type_id(t) == TypeTable[t].tag
is_integer(t) == type_id(t) = "int"
is_float(t) == type_id(t) = "float"
is_pointer(t) == type_id(t) = "ptr"

\* IntegerType::bits / FloatType::bits: the bit width
bits(t) == TypeTable[t].bits

\* Type::size(): bytes; a struct's size is the end of its last member
\* rounded up to 8, every member placed at a multiple of its own size
RECURSIVE tsize(_)
RECURSIVE tstruct_end(_, _)
tstruct_end(ms, i) ==
    IF i = 0 THEN 0
    ELSE LET sz == tsize(ms[i])
             prev == tstruct_end(ms, i - 1)
         IN  (IF sz = 0 THEN prev ELSE ((prev + sz - 1) \div sz) * sz) + sz

tsize(t) ==
    LET ty == TypeTable[t] IN
    CASE ty.tag \in {"int", "float"} -> (ty.bits + 7) \div 8
      [] ty.tag = "ptr" -> 8
      [] ty.tag \in {"array", "vec"} -> ty.n * tsize(ty.elem)
      [] ty.tag = "struct" ->
             ((tstruct_end(ty.members, Len(ty.members)) + 7) \div 8) * 8
      [] OTHER -> 0

BValues == DOMAIN bvals

\* Value::type()
btype(v) == bvals[v].type

NoB == [op |-> "none", args |-> <<>>, target |-> Null, result |-> Null,
        ok |-> TRUE]

InitBuilder ==
    /\ bvals = <<>>
    /\ block = <<>>
    /\ busers = <<>>
    /\ lastB = NoB

\* a builder call that ends in a failed assert: nothing is built
Rejected(op, args, target) ==
    /\ lastB' = [op |-> op, args |-> args, target |-> target, result |-> Null,
                 ok |-> FALSE]
    /\ UNCHANGED <<bvals, block, busers>>

\* XInst::create(...) followed by insert(inst): the instruction becomes a
\* user of each operand and goes to the end of the insert block; idx are the
\* constant indices of a GEP, or the predicate of an FCmp
EmitIdx(op, args, target, kind, type, idx) ==
    LET inst == Len(bvals) + 1 IN
    /\ Len(bvals) < MaxBVals
    /\ bvals' = Append(bvals, [kind |-> kind, type |-> type, ops |-> args,
                               idx |-> idx])
    /\ block' = Append(block, inst)
    /\ busers' = [v \in 1..inst |->
                     IF v = inst THEN <<>>
                     ELSE busers[v] \o
                          [k \in 1..Count(args, v) |-> inst]]
    /\ lastB' = [op |-> op, args |-> args, target |-> target, result |-> inst,
                 ok |-> TRUE]

Emit(op, args, target, kind, type) == EmitIdx(op, args, target, kind, type, <<>>)

\* a function argument of some type
new_argument ==
    \E t \in ScalarTypes :
        /\ Len(bvals) < MaxBVals
        /\ bvals' = Append(bvals, [kind |-> "arg", type |-> t, ops |-> <<>>,
                                   idx |-> <<>>])
        /\ busers' = Append(busers, <<>>)
        /\ lastB' = NoB
        /\ UNCHANGED block
        /\ OnlyBuilder

\* the instruction create_cast picks for two different types
cast_opcode(src_type, target_type) ==
    IF is_integer(src_type) /\ is_integer(target_type)
    THEN IF bits(src_type) < bits(target_type) THEN "SExt" ELSE "Trunc"
    ELSE IF is_integer(src_type) /\ is_float(target_type) THEN "SIToFP"
    ELSE IF is_float(src_type) /\ is_integer(target_type) THEN "FPToSI"
    ELSE IF is_float(src_type) /\ is_float(target_type)
    THEN IF bits(src_type) < bits(target_type) THEN "FPExt" ELSE "FPTrunc"
    ELSE IF is_pointer(src_type) /\ is_pointer(target_type) THEN "BitCast"
    ELSE IF \/ is_pointer(src_type) /\ is_integer(target_type)
            \/ is_integer(src_type) /\ is_pointer(target_type)
    THEN "BitCast"
    ELSE "none"

\* mutant of same_type: never the same
same_type_never(a, b) == FALSE

\* src_type == target_type on Type pointers
same_type(a, b) == a = b

\* IRBuilder::create_cast(src_val, target_type)
create_cast ==
    \E src_val \in BValues : \E target_type \in ScalarTypes :
        LET src_type == btype(src_val)
            op == cast_opcode(src_type, target_type)
            ptr_int == \/ is_pointer(src_type) /\ is_integer(target_type)
                       \/ is_integer(src_type) /\ is_pointer(target_type)
        IN  /\ IF same_type(src_type, target_type)
               THEN /\ lastB' = [op |-> "create_cast", args |-> <<src_val>>,
                                 target |-> target_type, result |-> src_val,
                                 ok |-> TRUE]
                    /\ UNCHANGED <<bvals, block, busers>>
               ELSE IF \/ op = "none"
                       \/ ptr_int /\ tsize(src_type) # tsize(target_type)
               THEN Rejected("create_cast", <<src_val>>, target_type)
               ELSE Emit("create_cast", <<src_val>>, target_type, op, target_type)
            /\ OnlyBuilder

\* IRBuilder::create_sext(val, target_type): integer to integer of a
\* greater size()
create_sext ==
    \E val \in BValues : \E target_type \in ScalarTypes :
        /\ IF /\ type_id(btype(val)) = "int"
              /\ type_id(target_type) = "int"
              /\ tsize(target_type) > tsize(btype(val))
           THEN Emit("create_sext", <<val>>, target_type, "SExt", target_type)
           ELSE Rejected("create_sext", <<val>>, target_type)
        /\ OnlyBuilder

\* IRBuilder::create_trunc(val, target_type): integer to integer of a
\* smaller size()
create_trunc ==
    \E val \in BValues : \E target_type \in ScalarTypes :
        /\ IF /\ type_id(btype(val)) = "int"
              /\ type_id(target_type) = "int"
              /\ tsize(target_type) < tsize(btype(val))
           THEN Emit("create_trunc", <<val>>, target_type, "Trunc", target_type)
           ELSE Rejected("create_trunc", <<val>>, target_type)
        /\ OnlyBuilder

\* get_pointer_type(t): the interned pointer to t (Null: not in the table)
PtrTo(t) ==
    IF \E p \in TypeIds : is_pointer(p) /\ TypeTable[p].elem = t
    THEN CHOOSE p \in TypeIds : is_pointer(p) /\ TypeTable[p].elem = t
    ELSE Null

\* the types memory is allocated for
AllocaTypes == {t \in TypeIds : PtrTo(t) # Null /\ ~is_pointer(t)}

\* IRBuilder::create_alloca(type): a pointer to fresh memory of that type
create_alloca ==
    \E t \in AllocaTypes :
        /\ IF tsize(t) > 0
           THEN Emit("create_alloca", <<>>, t, "Alloca", PtrTo(t))
           ELSE Rejected("create_alloca", <<>>, t)
        /\ OnlyBuilder

\* mutant of descend: a struct index picks the first member
descend_first(t, i) ==
    LET ty == TypeTable[t] IN
    CASE ty.tag = "array" -> ty.elem
      [] ty.tag = "struct" -> IF i < Len(ty.members) THEN ty.members[1] ELSE Null
      [] OTHER -> Null

\* one further GEP index: into the element of an array, into member i of a
\* struct (Null: no such level)
descend(t, i) ==
    LET ty == TypeTable[t] IN
    CASE ty.tag = "array" -> ty.elem
      [] ty.tag = "struct" -> IF i < Len(ty.members) THEN ty.members[i + 1] ELSE Null
      [] OTHER -> Null

\* the type reached from t by the indices idx[k..]
RECURSIVE walk(_, _, _)
walk(t, idx, k) ==
    IF t = Null \/ k > Len(idx) THEN t
    ELSE walk(descend(t, idx[k]), idx, k + 1)

\* GetElementPtrInst::get_result_type: the first index strips the pointer,
\* the others descend; the result is the pointer to the type reached
get_result_type(base_type, idx) ==
    LET reached == walk(TypeTable[base_type].elem, idx, 2) IN
    IF reached = Null THEN Null ELSE PtrTo(reached)

\* the constant index values
IndexValues == {0, 1, 2}
IndexLists == UNION {[1..n -> IndexValues] : n \in 1..2}

\* what create_gep does once the indices are at hand
gep(op, ptr, idx, target) ==
    IF /\ type_id(btype(ptr)) = "ptr"
       /\ get_result_type(btype(ptr), idx) # Null
    THEN EmitIdx(op, <<ptr>>, target, "GEP",
                 get_result_type(btype(ptr), idx), idx)
    ELSE Rejected(op, <<ptr>>, target)

\* IRBuilder::create_gep(ptr, indices), the indices being integer constants
create_gep ==
    \E ptr \in BValues : \E idx \in IndexLists :
        /\ gep("create_gep", ptr, idx, Null)
        /\ OnlyBuilder

\* IRBuilder::create_struct_gep(struct_ptr, idx)
create_struct_gep ==
    \E struct_ptr \in BValues : \E i \in IndexValues :
        /\ IF /\ type_id(btype(struct_ptr)) = "ptr"
              /\ type_id(TypeTable[btype(struct_ptr)].elem) = "struct"
              /\ i < Len(TypeTable[TypeTable[btype(struct_ptr)].elem].members)
           THEN gep("create_struct_gep", struct_ptr, <<0, i>>, i)
           ELSE Rejected("create_struct_gep", <<struct_ptr>>, i)
        /\ OnlyBuilder

NextGep ==
    \/ new_argument
    \/ create_alloca
    \/ create_gep
    \/ create_struct_gep

-------------------------------------------------------------------------------
\* Part 5: QualifiedType

\* Qualifier: None 0, Const 1, Volatile 2, Restrict 4 and their unions
Qualifiers == 0..7

\* the queries that answer yes or no (is_qualified calls itself and never
\* answers) and those that answer a number
Predicates == {"is_void", "is_float", "is_integer", "is_pointer", "is_function",
               "is_array", "is_struct", "is_tuple", "is_vector", "is_scalar",
               "is_numeric", "is_aggregate", "is_unsigned"}
Measures == {"size", "bit_width", "alignment"}

\* the predicate of the class of TypeTable[t]; no type of the table is void,
\* a function or a tuple
type_predicate(name, t) ==
    LET ty == TypeTable[t] IN
    CASE name = "is_float" -> ty.tag = "float"
      [] name = "is_integer" -> ty.tag = "int"
      [] name = "is_pointer" -> ty.tag = "ptr"
      [] name = "is_array" -> ty.tag = "array"
      [] name = "is_struct" -> ty.tag = "struct"
      [] name = "is_vector" -> ty.tag = "vec"
      [] name = "is_scalar" -> ty.tag \in {"int", "float"}
      [] name = "is_numeric" -> ty.tag \in {"int", "float"}
      [] name = "is_aggregate" -> ty.tag \in {"array", "struct", "vec"}
      [] name = "is_unsigned" -> ty.tag = "int" /\ ty.uns
      [] OTHER -> FALSE

\* bit_width() of each class, a uint8_t
tbit_width(t) ==
    LET ty == TypeTable[t] IN
    CASE ty.tag \in {"int", "float"} -> ty.bits
      [] ty.tag = "ptr" -> 64
      [] ty.tag = "vec" -> (TypeTable[ty.elem].bits * ty.n) % 256
      [] OTHER -> (tsize(t) * 8) % 256

\* Type::alignment and its override in StructType
talignment(t) ==
    IF TypeTable[t].tag = "struct" THEN 8 ELSE (tbit_width(t) + 7) \div 8

type_measure(name, t) ==
    CASE name = "size" -> tsize(t)
      [] name = "bit_width" -> tbit_width(t)
      [] name = "alignment" -> talignment(t)

\* the overrides of QualifiedType forward to base_; what it does not
\* override answers as Type does
Forwarded == {"is_void", "is_float", "is_integer", "is_pointer", "is_function",
              "is_array", "is_struct", "is_tuple", "is_vector", "size",
              "bit_width"}

qualified_predicate(name, qt) ==
    IF name \in Forwarded THEN type_predicate(name, qt.base) ELSE FALSE

qualified_measure(name, qt) ==
    IF name \in Forwarded THEN type_measure(name, qt.base)
    ELSE (type_measure("bit_width", qt.base) + 7) \div 8

NoQualified == [q |-> 0, base |-> Null]
NoQuery == [query |-> "none", answer |-> FALSE, amount |-> 0, returns |-> TRUE]

InitQual ==
    /\ qtype = NoQualified
    /\ lastQ = NoQuery

\* QualifiedType(q, base)
QualifiedType ==
    \E q \in Qualifiers : \E base \in TypeIds :
        /\ qtype' = [q |-> q, base |-> base]
        /\ lastQ' = NoQuery
        /\ OnlyQual

\* one of the yes-or-no queries on the qualified type
ask_predicate ==
    \E name \in Predicates :
        /\ qtype # NoQualified
        /\ lastQ' = [query |-> name, answer |-> qualified_predicate(name, qtype),
                     amount |-> 0, returns |-> TRUE]
        /\ UNCHANGED qtype
        /\ OnlyQual

\* size(), bit_width() or alignment() on the qualified type
ask_measure ==
    \E name \in Measures :
        /\ qtype # NoQualified
        /\ lastQ' = [query |-> name, answer |-> FALSE,
                     amount |-> qualified_measure(name, qtype), returns |-> TRUE]
        /\ UNCHANGED qtype
        /\ OnlyQual

\* QualifiedType::is_qualified() is defined as a call of itself. The
\* recursion has no end: the call overflows the stack or loops and never
\* returns, or, the compiler being free to assume that it ends, returns
\* either answer.
is_qualified ==
    \E outcome \in {[returns |-> FALSE, answer |-> FALSE],
                     [returns |-> TRUE, answer |-> FALSE],
                     [returns |-> TRUE, answer |-> TRUE]} :
        /\ qtype # NoQualified
        /\ lastQ' = [query |-> "is_qualified", answer |-> outcome.answer,
                     amount |-> 0, returns |-> outcome.returns]
        /\ UNCHANGED qtype
        /\ OnlyQual

NextQual ==
    \/ QualifiedType
    \/ ask_predicate
    \/ ask_measure
    \/ is_qualified

-------------------------------------------------------------------------------
\* Part 6: the zero-constant factory

\* the number of constant objects the factory allocates in a run
MaxZeros == 2

\* mutant of zero_kind: every zero is a ConstantInt
zero_kind_int(t) == "ConstantInt"

\* the class of the zero of type t
zero_kind(t) ==
    LET tag == TypeTable[t].tag IN
    CASE tag = "int" -> "ConstantInt"
      [] tag = "float" -> "ConstantFP"
      [] tag = "ptr" -> "ConstantPointerNull"
      [] tag \in {"array", "vec", "struct"} -> "ConstantAggregateZero"

\* the zero of type t: the integer 0, or the double 0.0 by its bit pattern
zero_of(t) == [kind |-> zero_kind(t), type |-> t, value |-> 0]

\* ConstantInt and ConstantFP are interned on (type, bit pattern); the
\* placeholder constants are looked up by their type
FindZero(c) ==
    IF \E h \in DOMAIN zeros : zeros[h] = c
    THEN CHOOSE h \in DOMAIN zeros : zeros[h] = c
    ELSE Null

NoZero == [type |-> Null, result |-> Null]

InitZero ==
    /\ zeros = <<>>
    /\ lastZero = NoZero

\* Module::get_constant_zero(Type *type)
get_constant_zero ==
    \E t \in TypeIds :
        LET found == FindZero(zero_of(t))
            h == IF found # Null THEN found ELSE Len(zeros) + 1
        IN  /\ found = Null => Len(zeros) < MaxZeros
            /\ zeros' = IF found # Null THEN zeros ELSE Append(zeros, zero_of(t))
            /\ lastZero' = [type |-> t, result |-> h]
            /\ OnlyZero

NextZero == get_constant_zero

-------------------------------------------------------------------------------
\* Part 7: Lexer

\* the length of the inputs
MaxInput == 3

\* the characters of the inputs: those the operators are made of, a blank
\* and a letter
OperatorChars == {"=", "!", "-", ">", ":", "<", "&", "|"}
Blank == " "
Letter == "a"
Chars == OperatorChars \cup {Blank, Letter}

Inputs == UNION {[1..n -> Chars] : n \in 0..MaxInput}

\* mutant of second_char: no operator has a second character
second_char_none(c) == "none"

\* the character that makes a two-character operator of c: parseEqualOrEq,
\* parseNe, parseArrowOrMinus, parseDoubleColonOrColon, parseLeOrLt,
\* parseGeOrGt, parseAnd, parseOr
second_char(c) ==
    CASE c = "=" -> "="
      [] c = "!" -> "="
      [] c = "-" -> ">"
      [] c = ":" -> ":"
      [] c = "<" -> "="
      [] c = ">" -> "="
      [] c = "&" -> "&"
      [] c = "|" -> "|"
      [] OTHER -> "none"

\* Token::Type of the two-character operator that starts with c
two_char_type(c) ==
    CASE c = "=" -> "OperatorEq"
      [] c = "!" -> "OperatorNe"
      [] c = "-" -> "OperatorArrow"
      [] c = ":" -> "OperatorDoubleColon"
      [] c = "<" -> "OperatorLe"
      [] c = ">" -> "OperatorGe"
      [] c = "&" -> "OperatorAnd"
      [] c = "|" -> "OperatorOr"

\* Token::Type of the operator c alone; no token type stands for a lone
\* ! or |
one_char_type(c) ==
    CASE c = "=" -> "OperatorAssign"
      [] c = "-" -> "OperatorMinus"
      [] c = ":" -> "OperatorColon"
      [] c = "<" -> "OperatorLt"
      [] c = ">" -> "OperatorGt"
      [] c = "&" -> "OperatorAmpersand"
      [] OTHER -> "error"

\* Lexer::peek(offset) from position p: the character, "none" past the end
peek(p, offset) ==
    IF p + offset <= Len(input) THEN input[p + offset] ELSE "none"

\* skipWhitespaceAndComments from p: the position of the next character
\* that is not a blank
RECURSIVE skipWhitespaceAndComments(_)
skipWhitespaceAndComments(p) ==
    IF peek(p, 0) = Blank THEN skipWhitespaceAndComments(p + 1) ELSE p

\* parseIdentifierOrKeyword from p: the position after the last letter
RECURSIVE identifier_end(_)
identifier_end(p) == IF peek(p, 0) = Letter THEN identifier_end(p + 1) ELSE p

Token(type, start, end) ==
    [type |-> type, start |-> start, lexeme |-> SubSeq(input, start, end - 1)]

\* mutant of end_token: the end of the input is answered with an identifier
end_token_identifier(p) == Token("Identifier", p, p)

\* the token at the end of the input
end_token(p) == Token("Eof", p, p)

\* the token that starts at p, p being at a character that is not a blank
scan(p) ==
    LET c == peek(p, 0) IN
    IF c = "none" THEN end_token(p)
    ELSE IF c = Letter THEN Token("Identifier", p, identifier_end(p))
    ELSE IF second_char(c) # "none" /\ peek(p, 1) = second_char(c)
         THEN Token(two_char_type(c), p, p + 2)
    ELSE Token(one_char_type(c), p, p + 1)

NoToken == [type |-> "none", start |-> 0, lexeme |-> <<>>]

InitLexer ==
    /\ input = <<>>
    /\ lexer_pos = 1
    /\ lastTok = NoToken

\* Lexer::Lexer(input): the lexer of the run is made before its first call
Lexer ==
    /\ input = <<>>
    /\ lastTok = NoToken
    /\ \E in \in Inputs :
         /\ input' = in
         /\ lexer_pos' = 1
         /\ lastTok' = NoToken
    /\ OnlyLexer

\* Lexer::nextToken(); a character that starts no token raises an error,
\* the position then is at or after that character
nextToken ==
    LET tok == scan(skipWhitespaceAndComments(lexer_pos)) IN
    /\ lastTok' = tok
    /\ IF tok.type = "error"
       THEN lexer_pos' \in {tok.start, tok.start + 1}
       ELSE lexer_pos' = tok.start + Len(tok.lexeme)
    /\ UNCHANGED input
    /\ OnlyLexer

NextLexer ==
    \/ Lexer
    \/ nextToken

\* the type of an ICmp result: i1
BoolType == 1

\* IRBuilder::create_icmp(pred, lhs, rhs): both operands of integer type,
\* and of the same type
create_icmp ==
    \E lhs \in BValues : \E rhs \in BValues :
        /\ IF /\ type_id(btype(lhs)) = "int"
              /\ type_id(btype(rhs)) = "int"
              /\ same_type(btype(lhs), btype(rhs))
           THEN Emit("create_icmp", <<lhs, rhs>>, Null, "ICmp", BoolType)
           ELSE Rejected("create_icmp", <<lhs, rhs>>, Null)
        /\ OnlyBuilder

NextICmp ==
    \/ new_argument
    \/ create_icmp

\* the opcodes create_binary is called with: the binary arithmetic opcodes
\* of enum Opcode and FCmp, which its switch names; an opcode is its index
BinaryOpcodes == <<"Add", "Sub", "Mul", "UDiv", "SDiv", "URem", "SRem", "FCmp">>

\* the switch of create_binary over the opcode, t the type of lhs
opcode_check(opc, t) ==
    CASE opc \in {"Add", "Sub", "Mul"} -> TRUE
      [] opc \in {"UDiv", "SDiv"} -> type_id(t) = "int"
      [] opc = "FCmp" -> type_id(t) = "float"
      [] OTHER -> FALSE

\* IRBuilder::create_binary(opc, lhs, rhs) with its type checks; the
\* instruction has the type of its operands
create_binary_checked ==
    \E o \in DOMAIN BinaryOpcodes : \E lhs \in BValues : \E rhs \in BValues :
        /\ IF /\ same_type(btype(lhs), btype(rhs))
              /\ type_id(btype(lhs)) \in {"int", "float"}
              /\ opcode_check(BinaryOpcodes[o], btype(lhs))
           THEN Emit("create_binary", <<lhs, rhs>>, o, BinaryOpcodes[o], btype(lhs))
           ELSE Rejected("create_binary", <<lhs, rhs>>, o)
        /\ OnlyBuilder

NextBinary ==
    \/ new_argument
    \/ create_binary_checked

\* FCmpInst::Predicate in declaration order; a predicate is its position
FCmpPredicates == <<"EQ", "NE", "LT", "LE", "GT", "GE",
                    "ONE", "OEQ", "OLT", "OLE", "OGT", "OGE">>

\* IRPrinter::get_fcmp_predicate_str
get_fcmp_predicate_str(pred) ==
    CASE pred = "EQ" -> "oeq"
      [] pred = "NE" -> "one"
      [] pred = "OLT" -> "olt"
      [] pred = "OLE" -> "ole"
      [] pred = "OGT" -> "ogt"
      [] pred = "OGE" -> "oge"
      [] OTHER -> "unknown"

\* the texts the printer has for a predicate; a text is its position
FCmpTexts == <<"oeq", "one", "olt", "ole", "ogt", "oge", "unknown">>
TextId(text) == CHOOSE k \in DOMAIN FCmpTexts : FCmpTexts[k] = text

\* IRBuilder::create_fcmp(pred, lhs, rhs): both operands of float type, and
\* of the same type; the instruction keeps the predicate
create_fcmp ==
    \E pred \in DOMAIN FCmpPredicates : \E lhs \in BValues : \E rhs \in BValues :
        /\ IF /\ type_id(btype(lhs)) = "float"
              /\ type_id(btype(rhs)) = "float"
              /\ same_type(btype(lhs), btype(rhs))
           THEN EmitIdx("create_fcmp", <<lhs, rhs>>, pred, "FCmp", BoolType, <<pred>>)
           ELSE Rejected("create_fcmp", <<lhs, rhs>>, pred)
        /\ OnlyBuilder

\* the printer writes an fcmp instruction: the text of its predicate()
print_fcmp ==
    \E inst \in BValues :
        /\ bvals[inst].kind = "FCmp"
        /\ lastB' = [op |-> "print_fcmp", args |-> <<inst>>,
                     target |-> bvals[inst].idx[1],
                     result |-> TextId(get_fcmp_predicate_str(
                                           FCmpPredicates[bvals[inst].idx[1]])),
                     ok |-> TRUE]
        /\ UNCHANGED <<bvals, block, busers>>
        /\ OnlyBuilder

NextFCmp ==
    \/ new_argument
    \/ create_fcmp
    \/ print_fcmp

NextExt ==
    \/ new_argument
    \/ create_sext
    \/ create_trunc

NextCast ==
    \/ new_argument
    \/ create_cast

(***************************************************************************)
(*            Part 8: the intrusive instruction list of a block            *)
(***************************************************************************)

MaxNodes == 4

Nodes == 1..MaxNodes

\* the Instruction objects constructed so far are 1..NumNodes
NumNodes == Cardinality(UNION {held[b] : b \in Blocks})

\* the links of all blocks and instructions as one value
Links(h, t, p, n, par) == [head |-> h, tail |-> t, prev |-> p, next |-> n, parent |-> par]

\* a BasicBlock::insert_before that never moves head_
list_insert_before_keeps_head(L, b, pos, inst) ==
    LET before == L.prev[pos]
    IN  Links(L.head, L.tail,
              [L.prev EXCEPT ![inst] = before, ![pos] = inst],
              IF before # Null
              THEN [L.next EXCEPT ![inst] = pos, ![before] = inst]
              ELSE [L.next EXCEPT ![inst] = pos],
              [L.parent EXCEPT ![inst] = b])

\* BasicBlock::append(inst), the linking: inst becomes the tail of b
list_append(L, b, inst) ==
    LET last == L.tail[b]
    IN  Links(IF last = Null THEN [L.head EXCEPT ![b] = inst] ELSE L.head,
              [L.tail EXCEPT ![b] = inst],
              [L.prev EXCEPT ![inst] = last],
              IF last # Null
              THEN [L.next EXCEPT ![inst] = Null, ![last] = inst]
              ELSE [L.next EXCEPT ![inst] = Null],
              [L.parent EXCEPT ![inst] = b])

\* BasicBlock::insert_before(pos, inst): inst is linked between pos->prev_ and
\* pos, and becomes the head when pos was the head
list_insert_before(L, b, pos, inst) ==
    LET before == L.prev[pos]
    IN  Links(IF before = Null THEN [L.head EXCEPT ![b] = inst] ELSE L.head,
              L.tail,
              [L.prev EXCEPT ![inst] = before, ![pos] = inst],
              IF before # Null
              THEN [L.next EXCEPT ![inst] = pos, ![before] = inst]
              ELSE [L.next EXCEPT ![inst] = pos],
              [L.parent EXCEPT ![inst] = b])

\* BasicBlock::insert_after(pos, inst): inst is linked between pos and
\* pos->next_, and becomes the tail when pos was the tail
list_insert_after(L, b, pos, inst) ==
    LET after == L.next[pos]
    IN  Links(L.head,
              IF after = Null THEN [L.tail EXCEPT ![b] = inst] ELSE L.tail,
              IF after # Null
              THEN [L.prev EXCEPT ![inst] = pos, ![after] = inst]
              ELSE [L.prev EXCEPT ![inst] = pos],
              [L.next EXCEPT ![inst] = after, ![pos] = inst],
              [L.parent EXCEPT ![inst] = b])

NoLinkOp == [op |-> "none", b |-> Null, pos |-> Null, inst |-> Null, ok |-> TRUE]

InitList ==
    /\ head_ = [b \in Blocks |-> Null]
    /\ tail_ = [b \in Blocks |-> Null]
    /\ prev_ = [i \in Nodes |-> Null]
    /\ next_ = [i \in Nodes |-> Null]
    /\ parent_ = [i \in Nodes |-> Null]
    /\ is_term_ = [i \in Nodes |-> FALSE]
    /\ held = [b \in Blocks |-> {}]
    /\ lastLink = NoLinkOp

\* the list operation op on block b at pos hands the block a new instruction
\* and leaves the links L
Linked(op, b, pos, term, L) ==
    LET inst == NumNodes + 1
    IN  /\ head_' = L.head
        /\ tail_' = L.tail
        /\ prev_' = L.prev
        /\ next_' = L.next
        /\ parent_' = L.parent
        /\ is_term_' = [is_term_ EXCEPT ![inst] = term]
        /\ held' = [held EXCEPT ![b] = @ \cup {inst}]
        /\ lastLink' = [op |-> op, b |-> b, pos |-> pos, inst |-> inst, ok |-> TRUE]

\* Instruction::create(opc, type, operands, created_in) and b.append(inst):
\* refused on a block whose last instruction is a terminator
AppendInst ==
    /\ NumNodes < MaxNodes
    /\ \E b \in Blocks : \E created_in \in Blocks : \E term \in BOOLEAN :
        LET inst == NumNodes + 1
            L == Links(head_, tail_, prev_, next_,
                       [parent_ EXCEPT ![inst] = created_in])
        IN  IF tail_[b] # Null /\ is_term_[tail_[b]]
            THEN /\ lastLink' = [op |-> "append", b |-> b, pos |-> Null,
                                 inst |-> Null, ok |-> FALSE]
                 /\ UNCHANGED <<head_, tail_, prev_, next_, parent_, is_term_,
                                held>>
            ELSE Linked("append", b, Null, term, list_append(L, b, inst))
    /\ OnlyList

\* Instruction::create(...) and b.insert_before(pos, inst), pos in b
InsertBefore ==
    /\ NumNodes < MaxNodes
    /\ \E b \in Blocks : \E pos \in held[b] :
       \E created_in \in Blocks : \E term \in BOOLEAN :
        LET inst == NumNodes + 1
            L == Links(head_, tail_, prev_, next_,
                       [parent_ EXCEPT ![inst] = created_in])
        IN  Linked("insert_before", b, pos, term, list_insert_before(L, b, pos, inst))
    /\ OnlyList

\* Instruction::create(...) and b.insert_after(pos, inst), pos in b
InsertAfter ==
    /\ NumNodes < MaxNodes
    /\ \E b \in Blocks : \E pos \in held[b] :
       \E created_in \in Blocks : \E term \in BOOLEAN :
        LET inst == NumNodes + 1
            L == Links(head_, tail_, prev_, next_,
                       [parent_ EXCEPT ![inst] = created_in])
        IN  Linked("insert_after", b, pos, term, list_insert_after(L, b, pos, inst))
    /\ OnlyList

NextList ==
    \/ AppendInst
    \/ InsertBefore
    \/ InsertAfter

(***************************************************************************)
(*                    Part 9: the blocks of a function                     *)
(***************************************************************************)

MaxBlocks == 3

Funcs == {1, 2}

BlockIds == 1..MaxBlocks

\* the BasicBlock objects constructed so far are 1..NumCreated, destroyed or not
NumCreated == Cardinality({b \in BlockIds : bb_parent_[b] # Null})

\* the blocks some function owns
LiveBlocks == UNION {Range(basic_blocks_[f]) : f \in Funcs}

\* the two block lists of all functions as one value
Owned(owning, ptrs) == [owning |-> owning, ptrs |-> ptrs]

\* std::vector::erase of the element equal to bb
Erase(list, bb) == SelectSeq(list, LAMBDA x : x # bb)

\* a remove_basic_block that erases from basic_blocks_ only
erase_block_owning_only(F, f, bb) ==
    IF bb \in Range(F.owning[f])
    THEN [ok |-> TRUE,
          lists |-> Owned([F.owning EXCEPT ![f] = Erase(@, bb)], F.ptrs)]
    ELSE [ok |-> FALSE, lists |-> F]

\* Function::remove_basic_block(bb): when the function owns bb, erases it from
\* basic_blocks_ and from basic_block_ptrs_ and returns true; else false
erase_block(F, f, bb) ==
    IF bb \in Range(F.owning[f])
    THEN [ok |-> TRUE,
          lists |-> Owned([F.owning EXCEPT ![f] = Erase(@, bb)],
                          [F.ptrs EXCEPT ![f] = Erase(@, bb)])]
    ELSE [ok |-> FALSE, lists |-> F]

NoFnOp == [op |-> "none", f |-> Null, bb |-> Null, result |-> Null, returns |-> TRUE]

InitFunc ==
    /\ basic_blocks_ = [f \in Funcs |-> <<>>]
    /\ basic_block_ptrs_ = [f \in Funcs |-> <<>>]
    /\ bb_parent_ = [b \in BlockIds |-> Null]
    /\ lastFn = NoFnOp

\* Function::create_basic_block(name): a new block with this function as
\* parent, appended to both lists and returned
create_basic_block ==
    /\ NumCreated < MaxBlocks
    /\ \E f \in Funcs :
        LET bb == NumCreated + 1
        IN  /\ basic_blocks_' = [basic_blocks_ EXCEPT ![f] = Append(@, bb)]
            /\ basic_block_ptrs_' = [basic_block_ptrs_ EXCEPT ![f] = Append(@, bb)]
            /\ bb_parent_' = [bb_parent_ EXCEPT ![bb] = f]
            /\ lastFn' = [op |-> "create", f |-> f, bb |-> Null, result |-> bb,
                          returns |-> TRUE]
    /\ OnlyFunc

\* Function::remove_basic_block(bb), bb a block of any function or nullptr
remove_basic_block ==
    /\ \E f \in Funcs : \E bb \in LiveBlocks \cup {Null} :
        LET r == erase_block(Owned(basic_blocks_, basic_block_ptrs_), f, bb)
        IN  /\ basic_blocks_' = r.lists.owning
            /\ basic_block_ptrs_' = r.lists.ptrs
            /\ UNCHANGED bb_parent_
            /\ lastFn' = [op |-> "remove", f |-> f, bb |-> bb, result |-> r.ok,
                          returns |-> TRUE]
    /\ OnlyFunc

\* Function::entry_block(): basic_blocks_.front().get(); front() of an empty
\* vector is undefined, the call may then return any pointer or not return
entry_block ==
    /\ \E f \in Funcs : \E any \in BlockIds \cup {Null} : \E returns \in BOOLEAN :
        /\ lastFn' = IF basic_blocks_[f] # <<>>
                     THEN [op |-> "entry_block", f |-> f, bb |-> Null,
                           result |-> basic_blocks_[f][1], returns |-> TRUE]
                     ELSE [op |-> "entry_block", f |-> f, bb |-> Null,
                           result |-> any, returns |-> returns]
        /\ UNCHANGED <<basic_blocks_, basic_block_ptrs_, bb_parent_>>
    /\ OnlyFunc

NextFunc ==
    \/ create_basic_block
    \/ remove_basic_block
    \/ entry_block

(***************************************************************************)
(*                             Specifications                              *)
(***************************************************************************)

Init ==
    /\ InitUse
    /\ InitTypes
    /\ InitConsts
    /\ InitShapes
    /\ InitCfg
    /\ InitBuilder
    /\ InitQual
    /\ InitZero
    /\ InitLexer
    /\ InitList
    /\ InitFunc

NextUse ==
    \/ CreateInst
    \/ SetOperand
    \/ ReplaceAllUses
    \/ DestroyUser

SpecUse == Init /\ [][NextUse]_vars

SpecOperand == Init /\ [][NextOperand]_vars

SpecTypes == Init /\ [][NextTypes]_vars

SpecConstInt == Init /\ [][NextConstInt]_vars

SpecConstFP == Init /\ [][NextConstFP]_vars

SpecStructs == Init /\ [][NextStructs]_vars

SpecLayout == Init /\ [][NextLayout]_vars

SpecFuncTypes == Init /\ [][NextFuncTypes]_vars

SpecCFG == Init /\ [][NextCfg]_vars

\* the builder's cursor and its create_* methods alone
NextCursor ==
    \/ set_insert_point_block
    \/ set_insert_point_inst
    \/ create_binary
    \/ create_br
    \/ create_ret
    \/ create_phi

SpecCursor == Init /\ [][NextCursor]_vars

SpecCast == Init /\ [][NextCast]_vars

SpecExt == Init /\ [][NextExt]_vars

SpecGep == Init /\ [][NextGep]_vars

SpecBinary == Init /\ [][NextBinary]_vars

SpecFCmp == Init /\ [][NextFCmp]_vars

SpecQual == Init /\ [][NextQual]_vars

SpecZero == Init /\ [][NextZero]_vars

SpecLexer == Init /\ [][NextLexer]_vars

SpecList == Init /\ [][NextList]_vars

SpecFunc == Init /\ [][NextFunc]_vars

SpecICmp == Init /\ [][NextICmp]_vars

(***************************************************************************)
(*                     Properties of the use-def graph                     *)
(***************************************************************************)

\* C1: after any sequence of instruction creations, set_operand calls,
\* replace_all_uses_with calls and User destructions, every non-null operand
\* v of every live user u has u in v's use-list.
UseListsMirrorOperands ==
    \A u \in live : \A i \in DOMAIN operands[u] :
        operands[u][i] # Null => u \in Range(users[operands[u][i]])

\* a user was destroyed and another live user still holds a registered operand
UseListsMirrorOperandsWitness ==
    /\ lastUse.op = "destroy"
    /\ \E u \in live : \E i \in DOMAIN operands[u] : operands[u][i] # Null

\* C9: u.set_operand(i, v) leaves operand(i) = v and u in v's use-list; the
\* previous operand's use-list keeps u exactly when another slot of u still
\* refers to it; the other slots of u, the other users' operands and the
\* use-lists of all other values are unchanged.
SetOperandEffect ==
    [][lastUse'.op = "set" =>
        LET u == lastUse'.u
            i == lastUse'.i
            v == lastUse'.v
            prev == operands[u][i]
        IN  /\ operands'[u][i] = v
            /\ v # Null => u \in Range(users'[v])
            /\ (prev # Null /\ prev # v) =>
                   (u \in Range(users'[prev])
                        <=> \E j \in DOMAIN operands'[u] : operands'[u][j] = prev)
            /\ Len(operands'[u]) = Len(operands[u])
            /\ \A j \in DOMAIN operands[u] \ {i} : operands'[u][j] = operands[u][j]
            /\ \A w \in UserIds \ {u} : operands'[w] = operands[w]
            /\ \A x \in AllVals \ {v, prev} : users'[x] = users[x]
    ]_vars

\* set_operand replaced a non-null operand by another value while a second
\* slot of the same user still refers to the previous operand
SetOperandEffectWitness ==
    /\ lastUse.op = "set"
    /\ lastUse.prev # Null
    /\ lastUse.v # Null
    /\ lastUse.prev # lastUse.v
    /\ \E j \in DOMAIN operands[lastUse.u] \ {lastUse.i} :
           operands[lastUse.u][j] = lastUse.prev

\* C10: old.replace_all_uses_with(new) with new # old redirects every slot
\* that referred to old to new, empties old's use-list and leaves every former
\* user of old in new's use-list.
ReplaceAllUsesEffect ==
    [][(lastUse'.op = "rauw" /\ lastUse'.old # lastUse'.new) =>
        LET old == lastUse'.old
            new == lastUse'.new
        IN  /\ \A u \in UserIds : \A k \in DOMAIN operands[u] :
                   operands[u][k] = old => operands'[u][k] = new
            /\ users'[old] = <<>>
            /\ \A u \in Range(users[old]) : u \in Range(users'[new])
    ]_vars

\* replace_all_uses_with moved a user that referred to old in two slots
ReplaceAllUsesEffectWitness ==
    /\ lastUse.op = "rauw"
    /\ lastUse.old # lastUse.new
    /\ lastUse.moved >= 2
    /\ \E u \in live : Count(users[lastUse.new], u) >= 2

TypeHandlesAreCanonical ==
    \A r1 \in requests : \A r2 \in requests :
        (r1.key = r2.key) <=> (r1.handle = r2.handle)

\* a request was answered from a registry after requests with other keys had
\* created other types in between
TypeHandlesAreCanonicalWitness ==
    /\ lastReq.hit
    /\ lastReq.handle = 1
    /\ Len(types) = MaxTypes
    /\ \E r \in requests : r.key.tag # lastReq.key.tag

(***************************************************************************)
(*                   Properties of the constant registries                 *)
(***************************************************************************)

\* the requests of one kind answered so far
RequestsOf(kind) == {r \in constRequests : r.req.kind = kind}

\* C12: two get_constant_int requests return the same handle exactly when
\* they have the same integer type handle and the same bit pattern.
ConstantIntsAreCanonical ==
    \A r1 \in RequestsOf("int") : \A r2 \in RequestsOf("int") :
        (r1.req.type = r2.req.type /\ r1.req.bits = r2.req.bits)
            <=> (r1.handle = r2.handle)

\* a request was answered from the registry while another constant exists for
\* the same value at another type, or for another value at the same type
ConstantIntsAreCanonicalWitness ==
    /\ lastConst.hit
    /\ lastConst.req.kind = "int"
    /\ \E r \in RequestsOf("int") :
           /\ r.handle # lastConst.handle
           /\ \/ r.req.bits = lastConst.req.bits
              \/ r.req.type = lastConst.req.type

\* C13: two get_constant_fp requests with the same float type return the
\* same handle exactly when the 64-bit patterns of their payloads are equal.
ConstantFPsAreBitwiseCanonical ==
    \A r1 \in RequestsOf("fp") : \A r2 \in RequestsOf("fp") :
        r1.req.type = r2.req.type =>
            ((r1.req.bits = r2.req.bits) <=> (r1.handle = r2.handle))

\* a NaN was answered from the registry while a NaN with other bits has
\* another handle at the same type
ConstantFPsAreBitwiseCanonicalWitness ==
    /\ lastConst.hit
    /\ lastConst.req.kind = "fp"
    /\ lastConst.req.bits[2] = 2047
    /\ lastConst.req.bits[3] # 0
    /\ \E r \in RequestsOf("fp") :
           /\ r.req.type = lastConst.req.type
           /\ r.req.bits[2] = 2047
           /\ r.req.bits[3] # 0
           /\ r.handle # lastConst.handle

(***************************************************************************)
(*               Properties of basic blocks and the builder                *)
(***************************************************************************)

\* the number of CFG edges from the terminators among the first k instructions
\* of list to block X
RECURSIVE EdgesTo(_, _, _)
EdgesTo(list, k, X) ==
    IF k = 0 THEN 0 ELSE Count(targets(list[k]), X) + EdgesTo(list, k - 1, X)

\* the state of a block: empty, open or sealed
BlockState(list) ==
    IF list = <<>> THEN "empty"
    ELSE IF get_terminator(list) # Null THEN "sealed"
    ELSE "open"

\* the phi instructions, each as the pair of its block and its position
Phis == {bk \in Blocks \X (1..MaxInsts) :
            /\ bk[2] \in DOMAIN insts[bk[1]]
            /\ insts[bk[1]][bk[2]].opcode = "Phi"}

AppendStateMachine ==
    [][lastCfg'.via = "append" =>
        LET b == lastCfg'.b
            old == insts[b]
            new == insts'[b]
        IN  IF BlockState(old) = "sealed"
            THEN /\ ~lastCfg'.ok
                 /\ new = old
            ELSE /\ lastCfg'.ok
                 /\ Len(new) = Len(old) + 1
                 /\ SubSeq(new, 1, Len(old)) = old
                 /\ BlockState(new) = IF IsTerminator(new[Len(new)].opcode)
                                      THEN "sealed" ELSE "open"
    ]_vars

\* a block went from empty to open to sealed and a later append to it failed
AppendStateMachineWitness ==
    /\ lastCfg.via = "append"
    /\ ~lastCfg.ok
    /\ appendOnly[lastCfg.b]
    /\ Len(insts[lastCfg.b]) = 2
    /\ ~IsTerminator(insts[lastCfg.b][1].opcode)
    /\ BlockState(insts[lastCfg.b]) = "sealed"

NoInstAfterTerminator ==
    \A b \in Blocks : \A k \in DOMAIN insts[b] :
        IsTerminator(insts[b][k].opcode) => k = Len(insts[b])

\* C7 as stated: every phi in X has as many incoming pairs as X has
\* predecessor entries, exactly one pair for each distinct predecessor, and
\* incoming values of the phi's type.
PhiArityMatchesPredecessors ==
    \A bk \in Phis :
        LET X == bk[1]
            p == insts[X][bk[2]]
            pairs == 0..(num_incoming(p) - 1)
        IN  /\ num_incoming(p) = Len(predecessors_[X])
            /\ \A P \in Range(predecessors_[X]) :
                   Cardinality({i \in pairs : get_incoming_block(p, i) = P}) = 1
            /\ \A i \in pairs : get_incoming_block(p, i) \in Range(predecessors_[X])
            /\ \A i \in pairs : value_type(get_incoming_value(p, i)) = p.type

\* C7, amended: every phi has as many incoming pairs as add_incoming calls
\* were accepted on it, the i-th pair is the i-th call's value and block, and
\* every incoming value has the phi's type.
PhiIncomingTracksCalls ==
    \A bk \in Phis :
        LET p == insts[bk[1]][bk[2]]
        IN  /\ num_incoming(p) = Len(p.log)
            /\ \A i \in 0..(Len(p.log) - 1) :
                   /\ get_incoming_value(p, i) = p.log[i + 1][1]
                   /\ get_incoming_block(p, i) = p.log[i + 1][2]
                   /\ value_type(get_incoming_value(p, i)) = p.type

\* a phi in X holds two pairs for different blocks, the second of them for a
\* block that branches to X
PhiIncomingTracksCallsWitness ==
    \E bk \in Phis :
        LET X == bk[1]
            p == insts[X][bk[2]]
        IN  /\ num_incoming(p) = 2
            /\ get_incoming_block(p, 0) # get_incoming_block(p, 1)
            /\ get_incoming_block(p, 1) \in Range(predecessors_[X])

\* C8: in each block every phi precedes every instruction that is not a phi.
PhisPrecedeNonPhis ==
    \A b \in Blocks : \A j \in DOMAIN insts[b] : \A k \in DOMAIN insts[b] :
        (j < k /\ insts[b][k].opcode = "Phi") => insts[b][j].opcode = "Phi"

(***************************************************************************)
(*                  Properties of struct and function types                *)
(***************************************************************************)

\* C14: for any two types of the module, *a == *b is true exactly when a and
\* b are the same handle - named structs of different names and anonymous
\* structs included
StructuralEqualityIsIdentity ==
    \A a, b \in Handles : type_eq(a, b) <=> a = b

\* the struct or function type requests of one kind answered so far
ShapeRequestsOf(kind) == {r \in shapeRequests : r.kind = kind}

\* C15: two get_function_type requests return the same handle exactly when
\* they have the same return type handle and the same ordered sequence of
\* parameter type handles, whatever the parameter names.
FunctionTypesAreCanonical ==
    \A r1 \in ShapeRequestsOf("func") : \A r2 \in ShapeRequestsOf("func") :
        (r1.tys = r2.tys) <=> (r1.handle = r2.handle)

\* a function type was requested again and found, while a second function
\* type has the same return type and the same two parameter types in the
\* other order
FunctionTypesAreCanonicalWitness ==
    /\ lastShape.op = "get_function_type"
    /\ lastShape.hit
    /\ \E r1 \in ShapeRequestsOf("func") : \E r2 \in ShapeRequestsOf("func") :
           /\ r1.handle = lastShape.handle
           /\ r2.handle # r1.handle
           /\ Len(r1.tys) = 3
           /\ r1.tys[2] # r1.tys[3]
           /\ r2.tys = <<r1.tys[1], r1.tys[3], r1.tys[2]>>

\* C16: two get_struct_type_anonymous requests return the same handle
\* exactly when their member-type sequences are equal, whatever the member
\* names.
AnonymousStructsAreCanonical ==
    \A r1 \in ShapeRequestsOf("anon") : \A r2 \in ShapeRequestsOf("anon") :
        (r1.tys = r2.tys) <=> (r1.handle = r2.handle)

\* an anonymous struct of two members was requested under other member
\* names than it was created with and found, while a second anonymous struct
\* has other member types
AnonymousStructsAreCanonicalWitness ==
    /\ lastShape.op = "get_struct_type_anonymous"
    /\ lastShape.hit
    /\ Len(lastShape.members) = 2
    /\ lastShape.members # StructOf(lastShape.handle).members_
    /\ \E r \in ShapeRequestsOf("anon") : r.handle # lastShape.handle

\* C17: set_body on a struct that has a body fails with TypeRedefinition
\* when the members differ from the existing ones and is a no-op when they
\* are identical; either way, and under every other operation, the members,
\* offsets and size of a struct with a body stay what the first set_body
\* computed.
SetBodyOnceStep ==
    /\ (lastShape'.op = "set_body" /\ lastShape'.hit) =>
           LET st == StructOf(lastShape'.handle) IN
           /\ ~st.is_opaque_
           /\ lastShape'.error =
                  IF lastShape'.members = st.members_ THEN "none"
                  ELSE "TypeRedefinition"
    /\ \A h \in StructHandles :
           ~StructOf(h).is_opaque_ =>
               LET st == StructOf(h)
                   after == struct_types_'[types'[h].a]
               IN  /\ after.members_ = st.members_
                   /\ after.offsets_ = st.offsets_
                   /\ after.size_ = st.size_
                   /\ ~after.is_opaque_

SetBodyOnce == [][SetBodyOnceStep]_vars

\* set_body was refused on a struct with a body of two members: the same
\* member types under other names
SetBodyOnceWitness ==
    /\ lastShape.op = "set_body"
    /\ lastShape.hit
    /\ lastShape.error = "TypeRedefinition"
    /\ Len(lastShape.members) = 2
    /\ member_types(lastShape.members) =
           member_types(StructOf(lastShape.handle).members_)

\* r is x rounded up to a multiple of a
IsRoundUp(r, x, a) ==
    IF a = 0 THEN r = x
    ELSE r % a = 0 /\ r >= x /\ r - x < a

\* the sum of the sizes of the types tys[1..n]
RECURSIVE SumSizes(_, _)
SumSizes(tys, n) == IF n = 0 THEN 0 ELSE SumSizes(tys, n - 1) + size_of(tys[n])

\* C18: the layout of every struct body t0..tn-1 has offset(0) = 0,
\* offset(i) = round_up(offset(i-1) + size(t(i-1)), align(ti)) and
\* size = round_up(offset(n-1) + size(t(n-1)), 8); hence the size is at least
\* the sum of the member sizes, no member starts before the end of the one
\* before it, and the size is a multiple of 8.
LayoutFollowsFormula ==
    \A h \in StructHandles :
        LET st == StructOf(h)
            tys == member_types(st.members_)
            n == Len(tys)
            off == st.offsets_
        IN  ~st.is_opaque_ =>
            /\ Len(off) = n
            /\ n > 0 => off[1] = 0
            /\ \A i \in 2..n :
                   /\ IsRoundUp(off[i], off[i - 1] + size_of(tys[i - 1]),
                                alignment(tys[i]))
                   /\ off[i] >= off[i - 1] + size_of(tys[i - 1])
            /\ n > 0 => IsRoundUp(st.size_, off[n] + size_of(tys[n]), 8)
            /\ st.size_ >= SumSizes(tys, n)
            /\ st.size_ % alignment(h) = 0
            /\ size_of(h) = st.size_

\* an anonymous struct was created whose second member is aligned past the
\* end of the first, so that its size is more than the sum of its members'
LayoutFollowsFormulaWitness ==
    /\ lastShape.op = "get_struct_type_anonymous"
    /\ ~lastShape.hit
    /\ LET st == StructOf(lastShape.handle)
           tys == member_types(st.members_)
       IN  /\ Len(tys) = 2
           /\ st.offsets_[2] > size_of(tys[1])
           /\ st.size_ > SumSizes(tys, 2)

\* C19: a struct that is still opaque reports size 0, alignment 0 and
\* bit width 0, and void reports size 0.
OpaqueStructReportsZero ==
    /\ \A h \in StructHandles :
           StructOf(h).is_opaque_ =>
               size_of(h) = 0 /\ alignment(h) = 0 /\ bit_width(h) = 0
    /\ \A h \in Handles : types[h].tag = "void" => size_of(h) = 0

\* C20: a pointer to a named struct can be had while the struct is opaque and
\* be a member of that struct's body; get_pointer_type returns that same
\* handle before and after set_body; set_body turns a struct from opaque to
\* complete, once, and nothing turns it back.
OpaquePointerStableStep ==
    /\ \A e \in DOMAIN pointer_types_ :
           e \in DOMAIN pointer_types_' /\ pointer_types_'[e] = pointer_types_[e]
    /\ (lastReq'.key.tag = "ptr" /\ lastReq'.key.a \in DOMAIN pointer_types_) =>
           lastReq'.handle = pointer_types_[lastReq'.key.a]
    /\ \A h \in StructHandles :
           LET after == struct_types_'[types'[h].a] IN
           /\ ~StructOf(h).is_opaque_ => ~after.is_opaque_
           /\ (StructOf(h).is_opaque_ /\ ~after.is_opaque_) =>
                  /\ lastShape'.op = "set_body"
                  /\ lastShape'.handle = h
                  /\ ~lastShape'.hit
                  /\ lastShape'.error = "none"
           /\ (lastShape'.op = "set_body" /\ lastShape'.handle = h) =>
                  /\ ~after.is_opaque_
                  /\ lastShape'.hit = ~StructOf(h).is_opaque_

OpaquePointerStable == [][OpaquePointerStableStep]_vars

\* get_pointer_type on a named struct with a body found the pointer type
\* that is a member of that very body, so one that was made while the struct
\* was opaque
OpaquePointerStableWitness ==
    /\ lastReq.hit
    /\ lastReq.key.tag = "ptr"
    /\ lastReq.key.a \in StructHandles
    /\ LET st == StructOf(lastReq.key.a) IN
       /\ ~st.is_opaque_
       /\ st.name_ # NoName
       /\ \E i \in DOMAIN st.members_ : st.members_[i].type = lastReq.handle

(***************************************************************************)
(*               Properties of the builder's typed instructions            *)
(***************************************************************************)

\* C21: create_cast(v, v.type) returns v itself and inserts no instruction:
\* the block's instruction list and every use-list are unchanged.
CastToOwnTypeStep ==
    (lastB'.op = "create_cast" /\ btype(lastB'.args[1]) = lastB'.target) =>
        /\ lastB'.ok
        /\ lastB'.result = lastB'.args[1]
        /\ block' = block
        /\ busers' = busers
        /\ bvals' = bvals

CastToOwnTypeIsIdentity == [][CastToOwnTypeStep]_vars

\* a cast instruction was itself cast to its own type
CastToOwnTypeIsIdentityWitness ==
    /\ lastB.op = "create_cast"
    /\ lastB.result = lastB.args[1]
    /\ btype(lastB.result) = lastB.target
    /\ Len(block) >= 1
    /\ bvals[lastB.result].kind # "arg"

\* the domain rule of a cast opcode, from source type to target type
CastDomain(kind, from, to) ==
    CASE kind \in {"SExt", "ZExt"} ->
             is_integer(from) /\ is_integer(to) /\ bits(to) > bits(from)
      [] kind = "Trunc" ->
             is_integer(from) /\ is_integer(to) /\ bits(to) < bits(from)
      [] kind = "FPExt" -> is_float(from) /\ is_float(to) /\ bits(to) > bits(from)
      [] kind = "FPTrunc" -> is_float(from) /\ is_float(to) /\ bits(to) < bits(from)
      [] kind \in {"SIToFP", "UIToFP"} -> is_integer(from) /\ is_float(to)
      [] kind \in {"FPToSI", "FPToUI"} -> is_float(from) /\ is_integer(to)
      [] kind = "PtrToInt" ->
             is_pointer(from) /\ is_integer(to) /\ tsize(from) * 8 = bits(to)
      [] kind = "IntToPtr" ->
             is_integer(from) /\ is_pointer(to) /\ tsize(to) * 8 = bits(from)
      [] kind = "BitCast" -> tsize(from) = tsize(to)
      [] OTHER -> TRUE

\* C22: every instruction create_cast emits for two different types obeys
\* its opcode's domain rule; integer types of equal width and different
\* signedness never yield a Trunc.
CastOpcodeObeysDomain ==
    \A v \in BValues :
        (bvals[v].kind # "arg" /\ Len(bvals[v].ops) = 1) =>
            CastDomain(bvals[v].kind, btype(bvals[v].ops[1]), btype(v))

\* C23: create_sext(v, T) succeeds exactly when v's type and T are integers
\* and T has strictly more bits; create_trunc(v, T) exactly when both are
\* integers and T has strictly fewer bits - i1 and i8 included.
ExtTruncCheckBitWidths ==
    LET from == btype(lastB.args[1])
        to == lastB.target
        ints == is_integer(from) /\ is_integer(to)
    IN  /\ lastB.op = "create_sext" =>
               (lastB.ok <=> (ints /\ bits(to) > bits(from)))
        /\ lastB.op = "create_trunc" =>
               (lastB.ok <=> (ints /\ bits(to) < bits(from)))

\* C30: create_icmp(pred, a, b) succeeds exactly when a and b have the same
\* type and that type is an integer or a pointer, and the result has type i1.
ICmpAcceptsIntegerOrPointer ==
    lastB.op = "create_icmp" =>
        LET a == btype(lastB.args[1])
            b == btype(lastB.args[2])
        IN  /\ lastB.ok <=> (a = b /\ (is_integer(a) \/ is_pointer(a)))
            /\ lastB.ok => (is_integer(btype(lastB.result)) /\
                            bits(btype(lastB.result)) = 1)

\* the type a GEP of at most two indices on a base of type base must have:
\* the base type itself for one index, the pointer to the array's element or
\* to the indexed struct member for two
ExpectedGepType(base, idx) ==
    LET pointee == TypeTable[TypeTable[base].elem] IN
    IF Len(idx) = 1 THEN base
    ELSE IF pointee.tag = "array" THEN PtrTo(pointee.elem)
    ELSE IF pointee.tag = "struct" /\ idx[2] < Len(pointee.members)
         THEN PtrTo(pointee.members[idx[2] + 1])
    ELSE Null

\* C24: every GEP has the type reached by walking its base pointer's type with
\* its indices; create_struct_gep(p, idx) emits the indices (0, idx), has the
\* type pointer-to-member idx, and fails when idx is not below the member
\* count.
GepTypeFollowsWalk ==
    /\ \A v \in BValues :
           bvals[v].kind = "GEP" =>
               /\ is_pointer(btype(bvals[v].ops[1]))
               /\ bvals[v].type = ExpectedGepType(btype(bvals[v].ops[1]),
                                                  bvals[v].idx)
    /\ lastB.op = "create_struct_gep" =>
           LET p == btype(lastB.args[1])
               s == TypeTable[p].elem
           IN  IF is_pointer(p) /\ type_id(s) = "struct"
               THEN /\ lastB.ok <=> lastB.target < Len(TypeTable[s].members)
                    /\ lastB.ok =>
                         /\ bvals[lastB.result].idx = <<0, lastB.target>>
                         /\ btype(lastB.result) =
                                PtrTo(TypeTable[s].members[lastB.target + 1])
               ELSE ~lastB.ok

\* member 1 of a { i32, i64 } behind a pointer was addressed: the GEP is an i64*
GepTypeFollowsWalkWitness ==
    /\ lastB.op = "create_struct_gep"
    /\ lastB.ok
    /\ lastB.target = 1
    /\ TypeTable[TypeTable[btype(lastB.args[1])].elem].members = <<3, 5>>
    /\ TypeTable[btype(lastB.result)].tag = "ptr"
    /\ TypeTable[btype(lastB.result)].elem = 5

\* C25: every predicate and size query on Qualified(b, q) answers what the
\* same query answers on b.
QualifiedForwardsEveryQuery ==
    /\ lastQ.query \in Predicates =>
           lastQ.answer = type_predicate(lastQ.query, qtype.base)
    /\ lastQ.query \in Measures =>
           lastQ.amount = type_measure(lastQ.query, qtype.base)

\* C26: get_constant_zero(t) returns a ConstantInt 0 for an integer t, a
\* ConstantFP 0.0 for a float, a ConstantPointerNull for a pointer and a
\* ConstantAggregateZero for an array, vector or struct, always of type t.
ZeroConstantMatchesType ==
    lastZero.result # Null =>
        LET c == zeros[lastZero.result]
            t == lastZero.type
        IN  /\ c.type = t
            /\ is_integer(t) => (c.kind = "ConstantInt" /\ c.value = 0)
            /\ is_float(t) => (c.kind = "ConstantFP" /\ c.value = 0)
            /\ is_pointer(t) => c.kind = "ConstantPointerNull"
            /\ type_id(t) \in {"array", "vec", "struct"} =>
                   c.kind = "ConstantAggregateZero"

\* the zero of a struct type was requested after the zero of a pointer type
ZeroConstantMatchesTypeWitness ==
    /\ lastZero.result = 2
    /\ type_id(lastZero.type) = "struct"
    /\ zeros[2].kind = "ConstantAggregateZero"
    /\ zeros[1].kind = "ConstantPointerNull"

\* what a call u.operand(i) that was just answered must have answered and
\* left alone
OperandStep ==
    lastUse'.op = "operand" =>
        LET ops == operands[lastUse'.u]
            i == lastUse'.i
        IN  /\ operands' = operands
            /\ users' = users
            /\ i >= Len(ops) => lastUse'.result = Null
            /\ i < Len(ops) => lastUse'.result = ops[i + 1]

\* C27: u.operand(i) with i not below the operand count returns the null
\* sentinel and changes neither the operand list nor any use-list; with i
\* below the count it returns the value stored in slot i.
OperandOutOfBoundsIsNull == [][OperandStep]_vars

\* a user with one operand was asked for slot 1, past the end, and answered
\* with the null sentinel
OperandOutOfBoundsIsNullWitness ==
    /\ lastUse.op = "operand"
    /\ Len(operands[lastUse.u]) = 1
    /\ operands[lastUse.u][1] # Null
    /\ lastUse.i = 1
    /\ lastUse.result = Null

-------------------------------------------------------------------------------
\* Properties of the lexer

\* the step is a nextToken call on the lexer at hand
IsNextToken == input' = input /\ lastTok'.type # "none"

\* nothing but blanks is left from position p on
Consumed(p) == \A k \in p..Len(input) : input[k] = Blank

\* a call at the end of the input answers Eof, and so does a call after Eof
EofStep ==
    IsNextToken =>
        /\ Consumed(lexer_pos) => lastTok'.type = "Eof"
        /\ lastTok.type = "Eof" => lastTok'.type = "Eof"

TwoCharOperators ==
    { <<"=", "=">>, <<"!", "=">>, <<"-", ">">>, <<":", ":">>,
      <<"<", "=">>, <<">", "=">>, <<"&", "&">>, <<"|", "|">> }

\* a token that was just returned lies at or after the end of the one before
\* with only blanks between, its lexeme is the text at its place, the
\* position is behind it, and where a two-character operator stands it is
\* that operator whole
TokenStep ==
    (IsNextToken /\ lastTok'.type \notin {"Eof", "error"}) =>
        LET tok == lastTok'
            end == tok.start + Len(tok.lexeme)
        IN  /\ tok.start >= lexer_pos
            /\ \A k \in lexer_pos..(tok.start - 1) : input[k] = Blank
            /\ Len(tok.lexeme) > 0
            /\ end <= Len(input) + 1
            /\ tok.lexeme = [k \in 1..Len(tok.lexeme) |-> input[tok.start + k - 1]]
            /\ lexer_pos' = end
            /\ (/\ tok.start < Len(input)
                /\ <<input[tok.start], input[tok.start + 1]>> \in TwoCharOperators)
               => tok.lexeme = <<input[tok.start], input[tok.start + 1]>>
            /\ tok.lexeme = <<"=", "=">> => tok.type = "OperatorEq"
            /\ tok.lexeme = <<"!", "=">> => tok.type = "OperatorNe"
            /\ tok.lexeme = <<"-", ">">> => tok.type = "OperatorArrow"

-------------------------------------------------------------------------------
\* Properties of the arithmetic and branch instructions

\* the binary arithmetic opcodes and the operand types of each: Add, Sub and
\* Mul take integers or floats, the divisions and remainders integers
ArithmeticOpcodes == {"Add", "Sub", "Mul", "UDiv", "SDiv", "URem", "SRem"}
InOpcodeDomain(opc, t) ==
    IF opc \in {"Add", "Sub", "Mul"} THEN is_integer(t) \/ is_float(t)
    ELSE is_integer(t)

\* C31: for every binary arithmetic opcode create_binary(op, a, b) succeeds
\* when a and b have one type and it is in the opcode's domain, fails when
\* the types differ, and the instruction has the operand type.
BinaryChecksOperandTypes ==
    (lastB.op = "create_binary" /\ BinaryOpcodes[lastB.target] \in ArithmeticOpcodes) =>
        LET a == btype(lastB.args[1])
            b == btype(lastB.args[2])
        IN  /\ (a = b /\ InOpcodeDomain(BinaryOpcodes[lastB.target], a)) => lastB.ok
            /\ a # b => ~lastB.ok
            /\ lastB.ok => btype(lastB.result) = a

\* the branch instructions in the blocks
Branches ==
    {inst \in UNION {Range(insts[b]) : b \in Blocks} :
        inst.opcode \in {"Br", "CondBr"}}

\* C32: a branch has exactly 1 operand (the target) when unconditional and
\* exactly 3 (cond, true block, false block) when conditional,
\* is_conditional() is true exactly for the 3-operand form, and a
\* conditional branch was only built on a condition of type i1.
BranchArity ==
    \A inst \in Branches :
        /\ inst.opcode = "Br" =>
               (Len(inst.ops) = 1 /\ inst.ops[1] \in Blocks /\ ~is_conditional(inst))
        /\ inst.opcode = "CondBr" =>
               /\ Len(inst.ops) = 3
               /\ value_type(inst.ops[1]) = "i1"
               /\ inst.ops[1] \notin Blocks
               /\ {inst.ops[2], inst.ops[3]} \subseteq Blocks
               /\ is_conditional(inst)

\* a block holds a conditional branch and another an unconditional one
BranchArityWitness ==
    /\ \E inst \in Branches : inst.opcode = "CondBr" /\ is_conditional(inst)
    /\ \E inst \in Branches : inst.opcode = "Br" /\ ~is_conditional(inst)

\* a step in which one of the builder's create_* methods is called
BuilderCreates ==
    \/ create_binary
    \/ create_br
    \/ create_cond_br
    \/ create_ret
    \/ create_phi

\* where a create_* call leaves the instruction: with the cursor at a block
\* the list grows by the instruction at its end (or the call fails on a
\* sealed block and the list stays); with the cursor at an instruction the
\* new one is linked just in front of it, the cursor stays on that
\* instruction, and the instructions the block held keep their order
InsertPointStep ==
    BuilderCreates =>
        LET b == insert_block_
            old == insts[b]
            new == insts'[b]
            k == insert_pos_
        IN  /\ insert_block_' = b
            /\ \A o \in Blocks \ {b} : insts'[o] = insts[o]
            /\ IF k = Null
               THEN /\ insert_pos_' = Null
                    /\ IF BlockState(old) = "sealed"
                       THEN new = old
                       ELSE /\ Len(new) = Len(old) + 1
                            /\ SubSeq(new, 1, Len(old)) = old
               ELSE /\ Len(new) = Len(old) + 1
                    /\ SubSeq(new, 1, k - 1) = SubSeq(old, 1, k - 1)
                    /\ SubSeq(new, k + 1, Len(new)) = SubSeq(old, k, Len(old))
                    /\ insert_pos_' = k + 1
                    /\ new[insert_pos_'] = old[k]

FCmpPredicateTextIsKnown ==
    lastB.op = "print_fcmp" =>
        FCmpTexts[lastB.result] \in {"oeq", "one", "olt", "ole", "ogt", "oge"}

\* C35: QualifiedType::is_qualified() terminates and returns true for every
\* qualified type.
IsQualifiedReturnsTrue ==
    lastQ.query = "is_qualified" => (lastQ.returns /\ lastQ.answer)

-------------------------------------------------------------------------------
\* Numerical properties of the types and constants

\* the array and vector types and the struct types that have a body
SizedAggregates ==
    {h \in Handles :
        \/ types[h].tag \in {"array", "vec"}
        \/ types[h].tag = "struct" /\ ~StructOf(h).is_opaque_}

\* C36: for every array, vector and completed struct type bit_width() is
\* 8 x size() and alignment() is at least 1 when size() is at least 1, also
\* for sizes of 32 bytes and more.
BitWidthIsEightTimesSize ==
    \A h \in SizedAggregates :
        /\ bit_width(h) = 8 * size_of(h)
        /\ size_of(h) >= 1 => alignment(h) >= 1

\* C37: for every user u and value v, u occurs in v.users() as many times as
\* operand slots of u refer to v; a user holding v in two slots occurs
\* twice, and clearing one of the two slots leaves one occurrence.
UseCountsMatchSlots ==
    \A u \in UserIds : \A v \in AllVals :
        Count(users[v], u) = Count(operands[u], v)

\* a user held a value in two slots and one of them was cleared: one slot and
\* one occurrence are left
UseCountsMatchSlotsWitness ==
    /\ lastUse.op = "set"
    /\ lastUse.v = Null
    /\ lastUse.prev # Null
    /\ Count(operands[lastUse.u], lastUse.prev) = 1
    /\ Count(users[lastUse.prev], lastUse.u) = 1

(***************************************************************************)
(*              Properties of the block and function lists                 *)
(***************************************************************************)

\* the instructions met walking next_ from i, at most fuel of them
RECURSIVE Walk(_, _)
Walk(i, fuel) ==
    IF i = Null \/ fuel = 0 THEN <<>> ELSE <<i>> \o Walk(next_[i], fuel - 1)

ListsOwnedBlocks(owning, ptrs, parent, f) ==
    /\ ptrs[f] = owning[f]
    /\ \A j, k \in DOMAIN ptrs[f] : j < k => ptrs[f][j] < ptrs[f][k]
    /\ \A k \in DOMAIN ptrs[f] : parent[ptrs[f][k]] = f

\* one call on a function, from the state before it to the state after it
FunctionBlocksStep ==
    /\ \A f \in Funcs : ListsOwnedBlocks(basic_blocks_', basic_block_ptrs_', bb_parent_', f)
    /\ (lastFn'.op = "entry_block" /\ basic_block_ptrs_[lastFn'.f] # <<>>)
           => /\ lastFn'.returns
              /\ lastFn'.result = basic_block_ptrs_[lastFn'.f][1]
    /\ lastFn'.op = "remove"
           => LET f == lastFn'.f
                  bb == lastFn'.bb
              IN  IF bb \in Range(basic_blocks_[f])
                  THEN /\ lastFn'.result = TRUE
                       /\ bb \notin Range(basic_blocks_'[f])
                       /\ bb \notin Range(basic_block_ptrs_'[f])
                       /\ basic_block_ptrs_'[f] = Erase(basic_block_ptrs_[f], bb)
                       /\ \A g \in Funcs \ {f} :
                              /\ basic_blocks_'[g] = basic_blocks_[g]
                              /\ basic_block_ptrs_'[g] = basic_block_ptrs_[g]
                  ELSE /\ lastFn'.result = FALSE
                       /\ UNCHANGED <<basic_blocks_, basic_block_ptrs_>>

===============================================================================
